---------------------------- MODULE Spec2Model ----------------------------
(***************************************************************************)
(* State-machine model of openmetrics-tui: the series store (store.go),    *)
(* and the Bubble Tea event loop that drives it (model.Init/model.Update). *)
(*                                                                         *)
(* Strings are sequences of one-character strings, so that sorting,        *)
(* quoting and concatenation are computed as the Go code computes them.    *)
(* A float64 is a record [nan, v]: NaN is the record with nan = TRUE.      *)
(***************************************************************************)
EXTENDS Integers, Sequences, FiniteSets, TLC

VARIABLES
    cfg,              \* model.cfg
    store,            \* model.store: [Metrics, HistoryLimit]
    isPaused,         \* model.isPaused
    isConnected,      \* model.isConnected
    connectionError,  \* model.connectionError ("nil" or an error text)
    err,              \* model.err (fatal error, "nil" when unset)
    width,            \* model.width
    viewportReady,    \* model.viewportReady
    content,          \* the content of model.viewport, as last set by SetContent
    inflight,         \* fetchCmd goroutines whose result Update has not handled yet (issue order)
    timers,           \* tea.Tick timers whose tickMsg Update has not handled yet
    msg,              \* the message handed to the latest call of Update
    cmd,              \* the tea.Cmd returned by the latest call of Init/Update
    observed,         \* history variable of StoreSpec: for every series that each cycle since
                      \* its creation observed exactly once (regular), the values observed;
                      \* and for every series the number of latest cycles in a row that did
                      \* not observe it (missed, counted up to MaxHistory)
    call,             \* the arguments of the function call under check (specifications of
                      \* GenerateSignature and ValuesWithDeltas)
    result,           \* what that call returned
    showHelp          \* model.showHelp

vars == <<cfg, store, isPaused, isConnected, connectionError, err, width, viewportReady, content,
          inflight, timers, msg, cmd, observed, call, result, showHelp>>

-----------------------------------------------------------------------------
(* Program constants *)

DefaultIntervalMs == 5000   \* -interval default, in milliseconds
DefaultWidth == 80          \* model.width before the first WindowSizeMsg

-----------------------------------------------------------------------------
(* Bounds of the model *)

NarrowWidth == 13    \* a terminal too narrow for every value column

MaxHistory == 2      \* largest -history value explored
MaxObs == 2          \* most observations in one snapshot
MaxInFlight == 2     \* most fetches in flight at once
MaxCycles == 3       \* most update cycles of one regular series recorded in observed
MaxLabels == 2       \* most labels of one metric in the calls of GenerateSignature
MaxSamples == 4      \* most stored samples of the series in the calls of ValuesWithDeltas
MaxSeries == 2       \* most series of the store rendered under a filter
MaxColumns == 3      \* largest -history value of the stores whose layout is checked
MaxWidth == 26       \* widest terminal the layout is checked at

-----------------------------------------------------------------------------
(* float64 *)

NaN == [nan |-> TRUE, v |-> 0]

F(x) == [nan |-> FALSE, v |-> x]

IsNaN(x) == x.nan

-----------------------------------------------------------------------------
(* Strings: byte-wise ordering as used by sort.Strings *)

ByteOrder == <<"\"", ",", "=", "\\", "_", "a", "b", "e", "k", "l", "o", "q", "r", "s", "t",
              "u", "v", "{", "}">>

Rank(c) == CHOOSE i \in DOMAIN ByteOrder : ByteOrder[i] = c

RECURSIVE StrLess(_, _)
StrLess(s, t) ==
    IF t = <<>> THEN FALSE
    ELSE IF s = <<>> THEN TRUE
    ELSE IF Head(s) = Head(t) THEN StrLess(Tail(s), Tail(t))
    ELSE Rank(Head(s)) < Rank(Head(t))

\* sort.Strings over a set of distinct strings
RECURSIVE SortStrings(_)
SortStrings(S) ==
    IF S = {} THEN <<>>
    ELSE LET m == CHOOSE x \in S : \A y \in S \ {x} : StrLess(x, y)
         IN  <<m>> \o SortStrings(S \ {m})

\* fmt's %q verb on the characters of the alphabet: quote, escaping " and \
RECURSIVE EscapeChars(_)
EscapeChars(s) ==
    IF s = <<>> THEN <<>>
    ELSE (IF Head(s) \in {"\"", "\\"} THEN <<"\\", Head(s)>> ELSE <<Head(s)>>)
         \o EscapeChars(Tail(s))

Quote(s) == <<"\"">> \o EscapeChars(s) \o <<"\"">>

RECURSIVE JoinLabels(_, _, _)
JoinLabels(keys, labels, i) ==
    IF i > Len(keys) THEN <<>>
    ELSE (IF i > 1 THEN <<",">> ELSE <<>>)
         \o keys[i] \o <<"=">> \o Quote(labels[keys[i]])
         \o JoinLabels(keys, labels, i + 1)

\* GenerateSignature with the keys left in descending order
GenerateSignature_Descending(name, labels) ==
    LET sorted == SortStrings(DOMAIN labels)
        keys == [i \in DOMAIN sorted |-> sorted[Len(sorted) + 1 - i]]
    IN  name \o <<"{">> \o JoinLabels(keys, labels, 1) \o <<"}">>

GenerateSignature(name, labels) ==
    LET keys == SortStrings(DOMAIN labels)
    IN  name \o <<"{">> \o JoinLabels(keys, labels, 1) \o <<"}">>

-----------------------------------------------------------------------------
(* Inputs: what the metrics endpoint may answer *)

\* the label map built from a metric's LabelPair list (later pairs overwrite)
RECURSIVE LabelMap(_)
LabelMap(pairs) ==
    IF pairs = <<>> THEN [k \in {} |-> <<>>]
    ELSE LET n == Len(pairs)
             rest == LabelMap(SubSeq(pairs, 1, n - 1))
             last == pairs[n]
         IN  [k \in DOMAIN rest \cup {last[1]} |-> IF k = last[1] THEN last[2] ELSE rest[k]]

HasValue(metric) == metric.kind \in {"gauge", "counter", "untyped"}

NoLabels == <<>>

LabelKV == << <<(<<"k">>), (<<"v">>)>> >>

Names == {<<"a">>}

SampleValues == {F(1), F(2)}

\* gauges of the series a{} with either value and of a{k="v"} with one value,
\* and one metric of a type UpdateFromFamilies skips
Observations ==
    [name : Names, label : {NoLabels}, kind : {"gauge"}, value : SampleValues]
    \cup [name : Names, label : {LabelKV}, kind : {"gauge"}, value : {F(1)}]
    \cup [name : Names, label : {NoLabels}, kind : {"histogram"}, value : {F(0)}]

Snapshots == UNION {[1..n -> Observations] : n \in 0..MaxObs}

\* the snapshots delivered to the event loop: empty, or one observation
LoopSnapshots == {<<>>} \cup {<<o>> : o \in Observations}

Errors == {"e1", "e2"}

\* the observations behind the stores whose layout is checked: values of
\* one, two and seven characters for both series
LayoutValues == {F(1), F(22), F(1000000)}

LayoutObservations ==
    [name : Names, label : {NoLabels, LabelKV}, kind : {"gauge"}, value : LayoutValues]

\* the counter requests_total, without labels, at three successive polls
RequestsTotal == <<"r", "e", "q", "u", "e", "s", "t", "s", "_", "t", "o", "t", "a", "l">>

ScenarioValues == <<F(100), F(140), F(190)>>

ScenarioObservations ==
    {[name |-> RequestsTotal, label |-> NoLabels, kind |-> "counter", value |-> ScenarioValues[i]] :
        i \in DOMAIN ScenarioValues}

AllObservations == Observations \cup LayoutObservations \cup ScenarioObservations

\* the signature of every observation of the model, computed once
SigOf == [o \in AllObservations |-> GenerateSignature(o.name, LabelMap(o.label))]

-----------------------------------------------------------------------------
(* Store *)

NewStore(historyLimit) ==
    [Metrics |-> [s \in {} |-> NaN], HistoryLimit |-> historyLimit]

\* appendValue with the newest sample dropped instead of the oldest
appendValue_DropsNewest(s, values, value) ==
    LET appended == Append(values, value)
    IN  IF Len(appended) > s.HistoryLimit
        THEN SubSeq(appended, 1, Len(appended) - 1)
        ELSE appended

\* appendValue on one series' Values
appendValue(s, values, value) ==
    LET appended == Append(values, value)
    IN  IF Len(appended) > s.HistoryLimit THEN Tail(appended) ELSE appended

updateMetric(s, sig, name, labels, value) ==
    LET series == IF sig \in DOMAIN s.Metrics
                  THEN s.Metrics[sig]
                  ELSE [Name |-> name, Labels |-> labels, Values |-> <<>>]
        updated == [series EXCEPT !.Values = appendValue(s, series.Values, value)]
    IN  [s EXCEPT !.Metrics =
            [g \in DOMAIN s.Metrics \cup {sig} |-> IF g = sig THEN updated ELSE s.Metrics[g]]]

\* first loop of UpdateFromFamilies: returns <<store, seenSignatures>>
RECURSIVE UpdateSeen(_, _, _, _)
UpdateSeen(s, seen, families, i) ==
    IF i > Len(families) THEN <<s, seen>>
    ELSE LET metric == families[i]
             labels == LabelMap(metric.label)
             sig == SigOf[metric]
         IN  IF HasValue(metric)
             THEN UpdateSeen(updateMetric(s, sig, metric.name, labels, metric.value),
                             seen \cup {sig}, families, i + 1)
             ELSE UpdateSeen(s, seen, families, i + 1)

\* UpdateFromFamilies without its second loop: unseen series are left alone
FillMissing_SkipsUnseen(s, seen) == s

\* the second loop dropping an unseen series once its window holds only NaN
FillMissing_DropsStale(s, seen) ==
    LET filled(g) == appendValue(s, s.Metrics[g].Values, NaN)
        kept == {g \in DOMAIN s.Metrics :
                    g \in seen \/ \E i \in DOMAIN filled(g) : filled(g)[i] # NaN}
    IN  [s EXCEPT !.Metrics =
            [g \in kept |->
                IF g \in seen THEN s.Metrics[g]
                ELSE [s.Metrics[g] EXCEPT !.Values = filled(g)]]]

\* second loop of UpdateFromFamilies: NaN for every series not seen
FillMissing(s, seen) ==
    [s EXCEPT !.Metrics =
        [g \in DOMAIN s.Metrics |->
            IF g \in seen THEN s.Metrics[g]
            ELSE [s.Metrics[g] EXCEPT !.Values = appendValue(s, s.Metrics[g].Values, NaN)]]]

\* UpdateFromFamilies remembering only the signature seen last
UpdateFromFamilies_LastSeenOnly(s, families) ==
    LET r == UpdateSeen(s, {}, families, 1)
        valued == {i \in DOMAIN families : HasValue(families[i])}
        latest == CHOOSE i \in valued : \A j \in valued : j <= i
    IN  FillMissing(r[1], IF valued = {} THEN {} ELSE {SigOf[families[latest]]})

UpdateFromFamilies(s, families) ==
    LET r == UpdateSeen(s, {}, families, 1)
    IN  FillMissing(r[1], r[2])

-----------------------------------------------------------------------------
(* Delta projection *)

DeltaModeOff == "off"

DeltaModeNext == "next"

DeltaModeView == "view"

Sub(a, b) == F(a.v - b.v)

\* indices below the last that hold a non-NaN sample (firstHistIdx / lastHistIdx candidates)
HistIdx(values) == {i \in 1..(Len(values) - 1) : ~IsNaN(values[i])}

SetMin(S) == CHOOSE x \in S : \A y \in S : x <= y

SetMax(S) == CHOOSE x \in S : \A y \in S : x >= y

\* ValuesWithDeltas subtracting through a missing sample as if it were 0
ValuesWithDeltas_NaNAsZero(values, mode) ==
    IF mode = DeltaModeOff THEN values
    ELSE IF Len(values) = 0 THEN <<>>
    ELSE LET lastIdx == Len(values)
             hist == HistIdx(values)
         IN  [i \in 1..lastIdx |->
                IF i < lastIdx
                THEN Sub(values[i + 1], values[i])
                ELSE IF mode = DeltaModeView
                     THEN IF hist # {} /\ SetMin(hist) # SetMax(hist)
                          THEN Sub(values[SetMax(hist)], values[SetMin(hist)])
                          ELSE NaN
                     ELSE values[lastIdx]]

\* ValuesWithDeltas with the window delta of "view" taken up to the current sample
ValuesWithDeltas_ViewToCurrent(values, mode) ==
    IF mode = DeltaModeOff THEN values
    ELSE IF Len(values) = 0 THEN <<>>
    ELSE LET lastIdx == Len(values)
             hist == HistIdx(values)
         IN  [i \in 1..lastIdx |->
                IF i < lastIdx
                THEN IF IsNaN(values[i]) \/ IsNaN(values[i + 1])
                     THEN NaN
                     ELSE Sub(values[i + 1], values[i])
                ELSE IF mode = DeltaModeView
                     THEN IF hist # {} /\ ~IsNaN(values[lastIdx])
                          THEN Sub(values[lastIdx], values[SetMin(hist)])
                          ELSE NaN
                     ELSE values[lastIdx]]

\* ValuesWithDeltas with the missing samples left out in mode "off"
ValuesWithDeltas_OffSkipsNaN(values, mode) ==
    IF mode = DeltaModeOff THEN SelectSeq(values, LAMBDA x : ~IsNaN(x))
    ELSE IF Len(values) = 0 THEN <<>>
    ELSE LET lastIdx == Len(values)
             hist == HistIdx(values)
         IN  [i \in 1..lastIdx |->
                IF i < lastIdx
                THEN IF IsNaN(values[i]) \/ IsNaN(values[i + 1])
                     THEN NaN
                     ELSE Sub(values[i + 1], values[i])
                ELSE IF mode = DeltaModeView
                     THEN IF hist # {} /\ SetMin(hist) # SetMax(hist)
                          THEN Sub(values[SetMax(hist)], values[SetMin(hist)])
                          ELSE NaN
                     ELSE values[lastIdx]]

\* ValuesWithDeltas returning the deltas alone, without the entry of the current sample
ValuesWithDeltas_DeltasOnly(values, mode) ==
    IF mode = DeltaModeOff THEN values
    ELSE IF Len(values) = 0 THEN <<>>
    ELSE [i \in 1..(Len(values) - 1) |->
            IF IsNaN(values[i]) \/ IsNaN(values[i + 1])
            THEN NaN
            ELSE Sub(values[i + 1], values[i])]

ValuesWithDeltas(values, mode) ==
    IF mode = DeltaModeOff THEN values
    ELSE IF Len(values) = 0 THEN <<>>
    ELSE LET lastIdx == Len(values)
             hist == HistIdx(values)
         IN  [i \in 1..lastIdx |->
                IF i < lastIdx
                THEN IF IsNaN(values[i]) \/ IsNaN(values[i + 1])
                     THEN NaN
                     ELSE Sub(values[i + 1], values[i])
                ELSE IF mode = DeltaModeView
                     THEN IF hist # {} /\ SetMin(hist) # SetMax(hist)
                          THEN Sub(values[SetMax(hist)], values[SetMin(hist)])
                          ELSE NaN
                     ELSE values[lastIdx]]

-----------------------------------------------------------------------------
(* Formatting *)

DigitChars == <<"0", "1", "2", "3", "4", "5", "6", "7", "8", "9">>

RECURSIVE Digits(_)
Digits(n) ==
    IF n < 10 THEN <<DigitChars[n + 1]>>
    ELSE Digits(n \div 10) \o <<DigitChars[(n % 10) + 1]>>

\* fmt's %d verb
FormatInt(n) == IF n < 0 THEN <<"-">> \o Digits(0 - n) ELSE Digits(n)

RECURSIVE TrimRight(_, _)
TrimRight(str, c) ==
    IF str # <<>> /\ str[Len(str)] = c
    THEN TrimRight(SubSeq(str, 1, Len(str) - 1), c)
    ELSE str

\* formatFloat on the integral values of the model: %.2f, then the zeros and the point trimmed
formatFloat(val) ==
    TrimRight(TrimRight(FormatInt(val.v) \o <<".", "0", "0">>, "0"), ".")

RECURSIVE Join(_, _)
Join(parts, sep) ==
    IF parts = <<>> THEN <<>>
    ELSE IF Len(parts) = 1 THEN parts[1]
    ELSE parts[1] \o sep \o Join(Tail(parts), sep)

-----------------------------------------------------------------------------
(* Table *)

LabelModeShowAll == "all"

LabelModeHideFiltered == "hide-filtered"

LabelModeHideAll == "hide-all"

RECURSIVE IndexOf(_, _, _)
\* strings.Index for a one-character separator: 0 when absent, else the 1-based position
IndexOf(str, c, i) ==
    IF i > Len(str) THEN 0
    ELSE IF str[i] = c THEN i
    ELSE IndexOf(str, c, i + 1)

getFilteredLabelKeys(filterLabel) ==
    IF filterLabel = <<>> THEN {}
    ELSE LET idx == IndexOf(filterLabel, "=", 1)
         IN  IF idx # 0 THEN {SubSeq(filterLabel, 1, idx - 1)} ELSE {}

\* regexp.Compile succeeds; of the syntax, the model has literal characters,
\* ".", a postfix "*", "^" at the start and "$" at the end, and a "*" with
\* nothing to repeat is the syntax error
ValidRegex(pattern) ==
    \A i \in DOMAIN pattern :
        pattern[i] = "*" => (i > 1 /\ pattern[i - 1] \notin {"*", "^"})

\* the regular expression re matches a prefix of text
RECURSIVE MatchHere(_, _)
MatchHere(re, text) ==
    IF re = <<>> THEN TRUE
    ELSE IF Len(re) >= 2 /\ re[2] = "*"
         THEN \E n \in 0..Len(text) :
                  /\ \A j \in 1..n : re[1] = "." \/ re[1] = text[j]
                  /\ MatchHere(SubSeq(re, 3, Len(re)), SubSeq(text, n + 1, Len(text)))
    ELSE IF re = <<"$">> THEN text = <<>>
    ELSE /\ text # <<>>
         /\ re[1] = "." \/ re[1] = text[1]
         /\ MatchHere(Tail(re), Tail(text))

\* regexp.MatchString: an unanchored search; a pattern that does not compile
\* gives (false, err), and the callers drop the error
MatchString(pattern, str) ==
    /\ ValidRegex(pattern)
    /\ IF pattern # <<>> /\ pattern[1] = "^"
       THEN MatchHere(Tail(pattern), str)
       ELSE \E i \in 1..(Len(str) + 1) : MatchHere(pattern, SubSeq(str, i, Len(str)))

\* the filter of buildTable with the exact form key=value matched as a regex
PassesFilter_ExactAsRegex(c, series) ==
    /\ (c.FilterMetric # <<>>) => MatchString(c.FilterMetric, series.Name)
    /\ (c.FilterLabel # <<>>) =>
          LET idx == IndexOf(c.FilterLabel, "=", 1)
              key == SubSeq(c.FilterLabel, 1, idx - 1)
              rest == SubSeq(c.FilterLabel, idx + 1, Len(c.FilterLabel))
          IN  IF idx # 0
              THEN IF rest # <<>> /\ rest[1] = "~"
                   THEN /\ key \in DOMAIN series.Labels
                        /\ MatchString(Tail(rest), series.Labels[key])
                   ELSE /\ key \in DOMAIN series.Labels
                        /\ MatchString(rest, series.Labels[key])
              ELSE \E k \in DOMAIN series.Labels :
                       MatchString(c.FilterLabel, series.Labels[k])

\* the filter matching a pattern without "=" against the empty string when
\* the series has no labels
PassesFilter_EmptyLabelSet(c, series) ==
    /\ (c.FilterMetric # <<>>) => MatchString(c.FilterMetric, series.Name)
    /\ (c.FilterLabel # <<>>) =>
          LET idx == IndexOf(c.FilterLabel, "=", 1)
              key == SubSeq(c.FilterLabel, 1, idx - 1)
              rest == SubSeq(c.FilterLabel, idx + 1, Len(c.FilterLabel))
          IN  IF idx # 0
              THEN IF rest # <<>> /\ rest[1] = "~"
                   THEN /\ key \in DOMAIN series.Labels
                        /\ MatchString(Tail(rest), series.Labels[key])
                   ELSE /\ key \in DOMAIN series.Labels
                        /\ series.Labels[key] = rest
              ELSE \/ DOMAIN series.Labels = {} /\ MatchString(c.FilterLabel, <<>>)
                   \/ \E k \in DOMAIN series.Labels :
                          MatchString(c.FilterLabel, series.Labels[k])

\* the filter of buildTable on one series
PassesFilter(c, series) ==
    /\ (c.FilterMetric # <<>>) => MatchString(c.FilterMetric, series.Name)
    /\ (c.FilterLabel # <<>>) =>
          LET idx == IndexOf(c.FilterLabel, "=", 1)
              key == SubSeq(c.FilterLabel, 1, idx - 1)
              rest == SubSeq(c.FilterLabel, idx + 1, Len(c.FilterLabel))
          IN  IF idx # 0
              THEN IF rest # <<>> /\ rest[1] = "~"
                   THEN /\ key \in DOMAIN series.Labels
                        /\ MatchString(Tail(rest), series.Labels[key])
                   ELSE /\ key \in DOMAIN series.Labels
                        /\ series.Labels[key] = rest
              ELSE \E k \in DOMAIN series.Labels :
                       MatchString(c.FilterLabel, series.Labels[k])

\* the name cell of buildTableRows (styles leave the text as it is)
NameCell(c, series) ==
    LET hidden == IF c.LabelMode = LabelModeHideFiltered
                  THEN getFilteredLabelKeys(c.FilterLabel)
                  ELSE {}
        labelParts == {k \o <<"=">> \o series.Labels[k] : k \in DOMAIN series.Labels \ hidden}
    IN  IF c.LabelMode # LabelModeHideAll /\ DOMAIN series.Labels # {} /\ labelParts # {}
        THEN series.Name \o <<"{">> \o Join(SortStrings(labelParts), <<",">>) \o <<"}">>
        ELSE series.Name

NumValueCols(c) == IF c.History < 1 THEN 1 ELSE c.History

\* the value cell without the explicit sign of a positive delta
ValueCell_Unsigned(c, vals, i) ==
    LET numValueCols == NumValueCols(c)
        offset == numValueCols - 1 - i
        valIdx == Len(vals) - 1 - offset
        isCurrentValue == (i = numValueCols - 1)
    IN  IF valIdx >= 0 /\ valIdx < Len(vals)
        THEN LET val == vals[valIdx + 1]
                 formatted == formatFloat(val)
                 isDeltaValue == \/ c.DeltaMode = DeltaModeNext /\ ~isCurrentValue
                                 \/ c.DeltaMode = DeltaModeView
             IN  IF IsNaN(val) THEN <<".">>
                 ELSE IF isDeltaValue
                      THEN IF formatted = <<"0">> \/ formatted = <<"-", "0">>
                           THEN <<".">>
                           ELSE formatted
                      ELSE formatted
        ELSE <<>>

\* the value cell with the samples aligned at the oldest column
ValueCell_FromHead(c, vals, i) ==
    LET numValueCols == NumValueCols(c)
        offset == numValueCols - 1 - i
        valIdx == i
        isCurrentValue == (i = numValueCols - 1)
    IN  IF valIdx >= 0 /\ valIdx < Len(vals)
        THEN LET val == vals[valIdx + 1]
                 formatted == formatFloat(val)
                 isDeltaValue == \/ c.DeltaMode = DeltaModeNext /\ ~isCurrentValue
                                 \/ c.DeltaMode = DeltaModeView
             IN  IF IsNaN(val) THEN <<".">>
                 ELSE IF isDeltaValue
                      THEN IF formatted = <<"0">> \/ formatted = <<"-", "0">>
                           THEN <<".">>
                           ELSE IF val.v > 0 THEN <<"+">> \o formatted ELSE formatted
                      ELSE formatted
        ELSE <<>>

\* one value cell of buildTableRows; i counts the value columns from 0
ValueCell(c, vals, i) ==
    LET numValueCols == NumValueCols(c)
        offset == numValueCols - 1 - i
        valIdx == Len(vals) - 1 - offset
        isCurrentValue == (i = numValueCols - 1)
    IN  IF valIdx >= 0 /\ valIdx < Len(vals)
        THEN LET val == vals[valIdx + 1]
                 formatted == formatFloat(val)
                 isDeltaValue == \/ c.DeltaMode = DeltaModeNext /\ ~isCurrentValue
                                 \/ c.DeltaMode = DeltaModeView
             IN  IF IsNaN(val) THEN <<".">>
                 ELSE IF isDeltaValue
                      THEN IF formatted = <<"0">> \/ formatted = <<"-", "0">>
                           THEN <<".">>
                           ELSE IF val.v > 0 THEN <<"+">> \o formatted ELSE formatted
                      ELSE formatted
        ELSE <<>>

buildTableRows(c, filteredSeries) ==
    [r \in DOMAIN filteredSeries |->
        LET series == filteredSeries[r]
            vals == ValuesWithDeltas(series.Values, c.DeltaMode)
        IN  <<NameCell(c, series)>>
            \o [i \in 1..NumValueCols(c) |-> ValueCell(c, vals, i - 1)]]

\* int(m.cfg.Interval.Seconds()), the interval being held in milliseconds
IntervalSeconds(c) == c.Interval \div 1000

Headers(c) ==
    LET n == NumValueCols(c)
    IN  <<(<<"M", "e", "t", "r", "i", "c">>)>>
        \o [i \in 1..n |->
              IF i = n THEN <<"C", "u", "r", "r">>
              ELSE <<"-">> \o FormatInt((n - i) * IntervalSeconds(c)) \o <<"s">>]

Max(a, b) == IF a > b THEN a ELSE b

\* calculateColumnWidths looking at the headers alone
calculateColumnWidths_HeadersOnly(headers, rows) ==
    [col \in 1..Len(headers) |-> Len(headers[col])]

\* calculateColumnWidths: headers and rows have the same number of columns here
calculateColumnWidths(headers, rows) ==
    [col \in 1..Len(headers) |->
        SetMax({Len(headers[col])} \cup {Len(rows[r][col]) : r \in DOMAIN rows})]

\* the column-fit loop of buildTable: value columns taken from the newest
\* backwards while the running width stays within the terminal width
RECURSIVE FitColumns(_, _, _, _)
FitColumns(colWidths, w, usedWidth, i) ==
    LET colIdx == Len(colWidths) - i
    IN  IF i >= Len(colWidths) - 1 THEN i
        ELSE IF usedWidth + colWidths[colIdx] + 1 <= w
             THEN FitColumns(colWidths, w, usedWidth + colWidths[colIdx] + 1, i + 1)
             ELSE i

\* the trim keeping the first numValueCols value columns, the oldest ones
Trim_KeepsOldest(row, numValueCols) ==
    <<row[1]>> \o SubSeq(row, 2, 1 + (IF numValueCols < Len(row) - 1 THEN numValueCols
                                                                   ELSE Len(row) - 1))

\* the name column and the last numValueCols columns of a row
Trim(row, numValueCols) ==
    <<row[1]>> \o SubSeq(row, Max(Len(row) - numValueCols + 1, 2), Len(row))

NoContent == [kind |-> "unset", headers |-> <<>>, rows |-> <<>>]

NoMetrics == [kind |-> "No metrics to display", headers |-> <<>>, rows |-> <<>>]

\* buildTable with the fit started at the name column plus one border
buildTable_OneBorder(c, s, w) ==
    LET keys == SortStrings(DOMAIN s.Metrics)
        passing == {i \in DOMAIN keys : PassesFilter(c, s.Metrics[keys[i]])}
        \* the passing series in key order
        filteredSeries ==
            [n \in 1..Cardinality(passing) |->
                s.Metrics[keys[CHOOSE i \in passing :
                                   Cardinality({j \in passing : j <= i}) = n]]]
        allRows == buildTableRows(c, filteredSeries)
        allHeaders == Headers(c)
        colWidths == calculateColumnWidths(allHeaders, allRows)
        fitted == FitColumns(colWidths, w, colWidths[1] + 1, 0)
        numValueCols == IF fitted < 1 THEN 1 ELSE fitted
    IN  IF passing = {} THEN NoMetrics
        ELSE [kind |-> "table",
              headers |-> Trim(allHeaders, numValueCols),
              rows |-> [r \in DOMAIN allRows |-> Trim(allRows[r], numValueCols)]]

\* buildTable with the series in descending key order
buildTable_Descending(c, s, w) ==
    LET ascending == SortStrings(DOMAIN s.Metrics)
        keys == [i \in DOMAIN ascending |-> ascending[Len(ascending) + 1 - i]]
        passing == {i \in DOMAIN keys : PassesFilter(c, s.Metrics[keys[i]])}
        \* the passing series in key order
        filteredSeries ==
            [n \in 1..Cardinality(passing) |->
                s.Metrics[keys[CHOOSE i \in passing :
                                   Cardinality({j \in passing : j <= i}) = n]]]
        allRows == buildTableRows(c, filteredSeries)
        allHeaders == Headers(c)
        colWidths == calculateColumnWidths(allHeaders, allRows)
        fitted == FitColumns(colWidths, w, 1 + colWidths[1] + 1, 0)
        numValueCols == IF fitted < 1 THEN 1 ELSE fitted
    IN  IF passing = {} THEN NoMetrics
        ELSE [kind |-> "table",
              headers |-> Trim(allHeaders, numValueCols),
              rows |-> [r \in DOMAIN allRows |-> Trim(allRows[r], numValueCols)]]

\* buildTable handing an empty grid to the renderer when no series passes
buildTable_EmptyGrid(c, s, w) ==
    LET keys == SortStrings(DOMAIN s.Metrics)
        passing == {i \in DOMAIN keys : PassesFilter(c, s.Metrics[keys[i]])}
        \* the passing series in key order
        filteredSeries ==
            [n \in 1..Cardinality(passing) |->
                s.Metrics[keys[CHOOSE i \in passing :
                                   Cardinality({j \in passing : j <= i}) = n]]]
        allRows == buildTableRows(c, filteredSeries)
        allHeaders == Headers(c)
        colWidths == calculateColumnWidths(allHeaders, allRows)
        fitted == FitColumns(colWidths, w, 1 + colWidths[1] + 1, 0)
        numValueCols == IF fitted < 1 THEN 1 ELSE fitted
    IN  IF FALSE THEN NoMetrics
        ELSE [kind |-> "table",
              headers |-> Trim(allHeaders, numValueCols),
              rows |-> [r \in DOMAIN allRows |-> Trim(allRows[r], numValueCols)]]

\* buildTable keeping two value columns whatever the fit admits
buildTable_KeepsTwo(c, s, w) ==
    LET keys == SortStrings(DOMAIN s.Metrics)
        passing == {i \in DOMAIN keys : PassesFilter(c, s.Metrics[keys[i]])}
        \* the passing series in key order
        filteredSeries ==
            [n \in 1..Cardinality(passing) |->
                s.Metrics[keys[CHOOSE i \in passing :
                                   Cardinality({j \in passing : j <= i}) = n]]]
        allRows == buildTableRows(c, filteredSeries)
        allHeaders == Headers(c)
        colWidths == calculateColumnWidths(allHeaders, allRows)
        fitted == FitColumns(colWidths, w, 1 + colWidths[1] + 1, 0)
        numValueCols == IF fitted < 2 THEN 2 ELSE fitted
    IN  IF passing = {} THEN NoMetrics
        ELSE [kind |-> "table",
              headers |-> Trim(allHeaders, numValueCols),
              rows |-> [r \in DOMAIN allRows |-> Trim(allRows[r], numValueCols)]]

\* buildTable: what is handed to the table renderer
buildTable(c, s, w) ==
    LET keys == SortStrings(DOMAIN s.Metrics)
        passing == {i \in DOMAIN keys : PassesFilter(c, s.Metrics[keys[i]])}
        \* the passing series in key order
        filteredSeries ==
            [n \in 1..Cardinality(passing) |->
                s.Metrics[keys[CHOOSE i \in passing :
                                   Cardinality({j \in passing : j <= i}) = n]]]
        allRows == buildTableRows(c, filteredSeries)
        allHeaders == Headers(c)
        colWidths == calculateColumnWidths(allHeaders, allRows)
        fitted == FitColumns(colWidths, w, 1 + colWidths[1] + 1, 0)
        numValueCols == IF fitted < 1 THEN 1 ELSE fitted
    IN  IF passing = {} THEN NoMetrics
        ELSE [kind |-> "table",
              headers |-> Trim(allHeaders, numValueCols),
              rows |-> [r \in DOMAIN allRows |-> Trim(allRows[r], numValueCols)]]

-----------------------------------------------------------------------------
(* Configuration and terminal *)

HistoryValues == 0..MaxHistory

\* the configurations parseFlags returns: every -history value, the other flags at their defaults
Configs ==
    [Interval : {DefaultIntervalMs}, History : HistoryValues, LabelMode : {LabelModeShowAll},
     FilterMetric : {<<>>}, FilterLabel : {<<>>}, DeltaMode : {DeltaModeOff}]

ResizeWidths == {NarrowWidth, DefaultWidth}

-----------------------------------------------------------------------------
(* Messages and commands *)

NoFamilies == <<>>

\* a fetch goroutine; pausedSince records that 'p' set the pause flag after it was issued
NewFetch == [pausedSince |-> FALSE]

\* a message; fetch is the goroutine that produced a fetch result, time the
\* time.Time a tickMsg carries
Msg(type, families, e, key, w, fetch, time) ==
    [type |-> type, families |-> families, err |-> e, key |-> key, width |-> w, fetch |-> fetch,
     time |-> time]

InitMsg == Msg("init", NoFamilies, "nil", "", 0, NewFetch, 0)

\* a tickMsg is the time the timer fired at: never that of the tick before it
\* (the times are told apart modulo 2)
tickMsg == Msg("tick", NoFamilies, "nil", "", 0, NewFetch,
               IF msg.type = "tick" THEN (msg.time + 1) % 2 ELSE 0)

FamiliesMsg(families, fetch) == Msg("families", families, "nil", "", 0, fetch, 0)

ErrorMsg(e, fetch) == Msg("error", NoFamilies, e, "", 0, fetch, 0)

KeyMsg(key) == Msg("key", NoFamilies, "nil", key, 0, NewFetch, 0)

WindowSizeMsg(w) == Msg("resize", NoFamilies, "nil", "", w, NewFetch, 0)

Count(c, name) == Cardinality({i \in DOMAIN c : c[i] = name})

\* the runtime starts every command of the returned batch concurrently
StartFetches(c) == inflight \o [i \in 1..Count(c, "fetch") |-> NewFetch]

Remove(seq, i) == SubSeq(seq, 1, i - 1) \o SubSeq(seq, i + 1, Len(seq))

\* the record of a series that some cycle observed not exactly once
Irregular == [regular |-> FALSE, values |-> <<>>, missed |-> 0]

\* no function call under check
NoCall == [fn |-> "none"]

\* nothing returned yet
NoResult == [returned |-> FALSE, value |-> <<>>]

Returned(value) == [returned |-> TRUE, value |-> value]

-----------------------------------------------------------------------------
(* model.Init and model.Update *)

Init ==
    /\ cfg \in Configs
    /\ store = NewStore(cfg.History)
    /\ width = DefaultWidth
    /\ viewportReady = FALSE
    /\ content = NoContent
    /\ isPaused = FALSE
    /\ isConnected = FALSE
    /\ connectionError = "nil"
    /\ err = "nil"
    /\ msg = InitMsg
    /\ cmd = <<"fetch", "tick">>
    /\ inflight = <<NewFetch>>
    /\ timers = 1
    /\ observed = [sig \in {} |-> Irregular]
    /\ showHelp = FALSE
    /\ call = NoCall
    /\ result = NoResult

\* the tickMsg case without the pause check
Tick_FetchesWhilePaused ==
    /\ timers >= 1
    /\ Len(inflight) < MaxInFlight
    /\ msg' = tickMsg
    /\ cmd' = <<"fetch", "tick">>
    /\ timers' = timers - 1 + Count(cmd', "tick")
    /\ inflight' = StartFetches(cmd')
    /\ UNCHANGED <<cfg, store, isPaused, isConnected, connectionError, err, width, viewportReady,
                   content, observed, call, result, showHelp>>

\* the tickMsg case handled only once no fetch is in flight (a blocking fetch)
Tick_WaitsForFetch ==
    /\ timers >= 1
    /\ inflight = <<>>
    /\ msg' = tickMsg
    /\ cmd' = IF isPaused THEN <<"tick">> ELSE <<"fetch", "tick">>
    /\ timers' = timers - 1 + Count(cmd', "tick")
    /\ inflight' = StartFetches(cmd')
    /\ UNCHANGED <<cfg, store, isPaused, isConnected, connectionError, err, width, viewportReady,
                   content, observed, call, result, showHelp>>

\* case tickMsg
\* the tick that schedules no successor while paused
Tick_StopsWhilePaused ==
    /\ timers >= 1
    /\ isPaused \/ Len(inflight) < MaxInFlight
    /\ msg' = tickMsg
    /\ cmd' = IF isPaused THEN <<>> ELSE <<"fetch", "tick">>
    /\ timers' = timers - 1 + Count(cmd', "tick")
    /\ inflight' = StartFetches(cmd')
    /\ UNCHANGED <<cfg, store, isPaused, isConnected, connectionError, err, width, viewportReady,
                   content, observed, call, result, showHelp>>

Tick ==
    /\ timers >= 1
    /\ isPaused \/ Len(inflight) < MaxInFlight
    /\ msg' = tickMsg
    /\ cmd' = IF isPaused THEN <<"tick">> ELSE <<"fetch", "tick">>
    /\ timers' = timers - 1 + Count(cmd', "tick")
    /\ inflight' = StartFetches(cmd')
    /\ UNCHANGED <<cfg, store, isPaused, isConnected, connectionError, err, width, viewportReady,
                   content, observed, call, result, showHelp>>

\* the fetch-result case with connectionError left as it was
FetchSucceeded_KeepsError(i, families) ==
    /\ msg' = FamiliesMsg(families, inflight[i])
    /\ cmd' = <<>>
    /\ inflight' = Remove(inflight, i)
    /\ IF isPaused
       THEN UNCHANGED <<store, isConnected, content, showHelp>>
       ELSE /\ store' = UpdateFromFamilies(store, families)
            /\ isConnected' = TRUE
            /\ content' = IF viewportReady THEN buildTable(cfg, store', width) ELSE content
    /\ UNCHANGED <<cfg, isPaused, connectionError, err, width, viewportReady, timers,
                   observed, call, result, showHelp>>

\* the fetch-result case without the pause check
FetchSucceeded_IgnoresPause(i, families) ==
    /\ msg' = FamiliesMsg(families, inflight[i])
    /\ cmd' = <<>>
    /\ inflight' = Remove(inflight, i)
    /\ store' = UpdateFromFamilies(store, families)
    /\ isConnected' = TRUE
    /\ connectionError' = "nil"
    /\ content' = IF viewportReady THEN buildTable(cfg, store', width) ELSE content
    /\ UNCHANGED <<cfg, isPaused, err, width, viewportReady, timers, observed, call, result,
                   showHelp>>

\* the fetch-result case keeping a result that arrives while paused for later
FetchSucceeded_Requeues(i, families) ==
    /\ msg' = FamiliesMsg(families, inflight[i])
    /\ cmd' = <<>>
    /\ IF isPaused
       THEN UNCHANGED <<store, isConnected, connectionError, content, inflight, showHelp>>
       ELSE /\ inflight' = Remove(inflight, i)
            /\ store' = UpdateFromFamilies(store, families)
            /\ isConnected' = TRUE
            /\ connectionError' = "nil"
            /\ content' = IF viewportReady THEN buildTable(cfg, store', width) ELSE content
    /\ UNCHANGED <<cfg, isPaused, err, width, viewportReady, timers, observed, call, result,
                   showHelp>>

\* case map[string]*dto.MetricFamily, result of the i-th fetch in flight
FetchSucceeded(i, families) ==
    /\ msg' = FamiliesMsg(families, inflight[i])
    /\ cmd' = <<>>
    /\ inflight' = Remove(inflight, i)
    /\ IF isPaused
       THEN UNCHANGED <<store, isConnected, connectionError, content, showHelp>>
       ELSE /\ store' = UpdateFromFamilies(store, families)
            /\ isConnected' = TRUE
            /\ connectionError' = "nil"
            /\ content' = IF viewportReady THEN buildTable(cfg, store', width) ELSE content
    /\ UNCHANGED <<cfg, isPaused, err, width, viewportReady, timers, observed, call, result,
                   showHelp>>

\* the error case with the store emptied
FetchFailed_ClearsStore(i, e) ==
    /\ msg' = ErrorMsg(e, inflight[i])
    /\ cmd' = <<>>
    /\ inflight' = Remove(inflight, i)
    /\ connectionError' = e
    /\ isConnected' = FALSE
    /\ store' = NewStore(store.HistoryLimit)
    /\ UNCHANGED <<cfg, isPaused, err, width, viewportReady, content, timers, observed, call,
                   result, showHelp>>

\* the error case storing the failure as the fatal error
FetchFailed_SetsFatal(i, e) ==
    /\ msg' = ErrorMsg(e, inflight[i])
    /\ cmd' = <<>>
    /\ inflight' = Remove(inflight, i)
    /\ connectionError' = e
    /\ isConnected' = FALSE
    /\ err' = e
    /\ UNCHANGED <<cfg, store, isPaused, width, viewportReady, content, timers, observed, call,
                   result, showHelp>>

\* case error, result of the i-th fetch in flight
\* the failure that records the error and leaves isConnected alone
FetchFailed_KeepsConnected(i, e) ==
    /\ msg' = ErrorMsg(e, inflight[i])
    /\ cmd' = <<>>
    /\ inflight' = Remove(inflight, i)
    /\ connectionError' = e
    /\ UNCHANGED <<cfg, store, isPaused, isConnected, err, width, viewportReady, content, timers,
                   observed, call, result, showHelp>>

FetchFailed(i, e) ==
    /\ msg' = ErrorMsg(e, inflight[i])
    /\ cmd' = <<>>
    /\ inflight' = Remove(inflight, i)
    /\ connectionError' = e
    /\ isConnected' = FALSE
    /\ UNCHANGED <<cfg, store, isPaused, err, width, viewportReady, content, timers,
                   observed, call, result, showHelp>>

\* the "p" case cancelling the fetches in flight
KeyP_CancelsFetches ==
    /\ msg' = KeyMsg("p")
    /\ cmd' = <<>>
    /\ isPaused' = ~isPaused
    /\ inflight' = <<>>
    /\ UNCHANGED <<cfg, store, isConnected, connectionError, err, width, viewportReady, content,
                   timers, observed, call, result, showHelp>>

\* case tea.KeyMsg "p"
KeyP ==
    /\ msg' = KeyMsg("p")
    /\ cmd' = <<>>
    /\ isPaused' = ~isPaused
    /\ inflight' = [i \in DOMAIN inflight |->
                      [pausedSince |-> inflight[i].pausedSince \/ isPaused']]
    /\ UNCHANGED <<cfg, store, isConnected, connectionError, err, width, viewportReady, content,
                   timers, observed, call, result, showHelp>>

\* case tea.WindowSizeMsg
\* the key "?"
KeyHelp ==
    /\ msg' = KeyMsg("?")
    /\ cmd' = <<>>
    /\ showHelp' = ~showHelp
    /\ UNCHANGED <<cfg, store, isPaused, isConnected, connectionError, err, width, viewportReady,
                   content, inflight, timers, observed, call, result>>

\* the key "l": all <-> hide-all without a label filter, else
\* all -> hide-filtered -> hide-all -> all
KeyL ==
    /\ msg' = KeyMsg("l")
    /\ cmd' = <<>>
    /\ cfg' = [cfg EXCEPT !.LabelMode =
                  IF cfg.FilterLabel = <<>>
                  THEN (IF @ = LabelModeShowAll THEN LabelModeHideAll ELSE LabelModeShowAll)
                  ELSE CASE @ = LabelModeShowAll -> LabelModeHideFiltered
                         [] @ = LabelModeHideFiltered -> LabelModeHideAll
                         [] OTHER -> LabelModeShowAll]
    /\ content' = IF viewportReady THEN buildTable(cfg', store, width) ELSE content
    /\ UNCHANGED <<store, isPaused, isConnected, connectionError, err, width, viewportReady,
                   inflight, timers, observed, call, result, showHelp>>

\* the key "d" with the samples of every series reset to the current one
KeyD_DropsHistory ==
    /\ msg' = KeyMsg("d")
    /\ cmd' = <<>>
    /\ cfg' = [cfg EXCEPT !.DeltaMode =
                  CASE @ = DeltaModeOff -> DeltaModeNext
                    [] @ = DeltaModeNext -> DeltaModeView
                    [] OTHER -> DeltaModeOff]
    /\ store' = [store EXCEPT !.Metrics =
                    [sig \in DOMAIN store.Metrics |->
                        [store.Metrics[sig] EXCEPT !.Values =
                            IF @ = <<>> THEN <<>> ELSE <<@[Len(@)]>>]]]
    /\ content' = IF viewportReady THEN buildTable(cfg', store', width) ELSE content
    /\ UNCHANGED <<isPaused, isConnected, connectionError, err, width, viewportReady,
                   inflight, timers, observed, call, result, showHelp>>

\* the key "d": off -> next -> view -> off
KeyD ==
    /\ msg' = KeyMsg("d")
    /\ cmd' = <<>>
    /\ cfg' = [cfg EXCEPT !.DeltaMode =
                  CASE @ = DeltaModeOff -> DeltaModeNext
                    [] @ = DeltaModeNext -> DeltaModeView
                    [] OTHER -> DeltaModeOff]
    /\ content' = IF viewportReady THEN buildTable(cfg', store, width) ELSE content
    /\ UNCHANGED <<store, isPaused, isConnected, connectionError, err, width, viewportReady,
                   inflight, timers, observed, call, result, showHelp>>

WindowSize(w) ==
    /\ msg' = WindowSizeMsg(w)
    /\ cmd' = <<>>
    /\ width' = w
    /\ viewportReady' = TRUE
    /\ content' = buildTable(cfg, store, w)
    /\ UNCHANGED <<cfg, store, isPaused, isConnected, connectionError, err, inflight, timers,
                   observed, call, result, showHelp>>

Resize == \E w \in ResizeWidths : WindowSize(w)

FetchSuccess ==
    \E i \in DOMAIN inflight : \E families \in LoopSnapshots : FetchSucceeded(i, families)

FetchFailure == \E i \in DOMAIN inflight : \E e \in Errors : FetchFailed(i, e)

Next == Tick \/ FetchSuccess \/ FetchFailure \/ KeyP \/ Resize

Spec == Init /\ [][Next]_vars

\* a fetch other than the oldest one in flight completes, with either outcome
LaterFetchDone ==
    \E i \in 2..Len(inflight) :
        \/ \E e \in Errors : FetchFailed(i, e)
        \/ \E families \in LoopSnapshots : FetchSucceeded(i, families)

\* The event loop under fair scheduling: a pending timer fires and its tickMsg
\* is handled, and a fetch completes and its result is handled, except that
\* the oldest fetch in flight may never complete (http.Get has no timeout).
LiveSpec == Spec /\ WF_vars(Tick) /\ WF_vars(LaterFetchDone)

-----------------------------------------------------------------------------
(* The store on its own: Store.UpdateFromFamilies applied to any sequence of *)
(* snapshots, with the observations of every cycle recorded in observed.     *)

RECURSIVE ObservedValues(_, _)
ObservedValues(families, sig) ==
    IF families = <<>> THEN <<>>
    ELSE LET metric == Head(families)
             here == HasValue(metric)
                     /\ SigOf[metric] = sig
         IN  (IF here THEN <<metric.value>> ELSE <<>>) \o ObservedValues(Tail(families), sig)

\* the record of series sig after a cycle with the snapshot families
Record(sig, families) ==
    LET before == IF sig \in DOMAIN observed
                  THEN observed[sig]
                  ELSE [regular |-> TRUE, values |-> <<>>, missed |-> 0]
        seen == ObservedValues(families, sig)
        missed == IF seen # <<>> THEN 0
                  ELSE IF before.missed < MaxHistory THEN before.missed + 1 ELSE MaxHistory
    IN  IF before.regular /\ Len(seen) = 1
        THEN [regular |-> TRUE, values |-> Append(before.values, seen[1]), missed |-> 0]
        ELSE [Irregular EXCEPT !.missed = missed]

StoreUpdate(families) ==
    /\ \A sig \in DOMAIN observed : Len(observed[sig].values) < MaxCycles
    /\ msg' = FamiliesMsg(families, NewFetch)
    /\ store' = UpdateFromFamilies(store, families)
    /\ observed' = [sig \in DOMAIN store'.Metrics |-> Record(sig, families)]
    /\ UNCHANGED <<cfg, isPaused, isConnected, connectionError, err, width, viewportReady, content,
                   inflight, timers, cmd, call, result, showHelp>>

StoreNext == \E families \in Snapshots : StoreUpdate(families)

StoreSpec == Init /\ [][StoreNext]_vars

-----------------------------------------------------------------------------
(* GenerateSignature on its own: two calls on bounded names and label lists *)

\* label keys and values, with the characters the signature itself is built from
SigKeys == {<<"a">>, <<"b">>, <<"a", "=", "\"", "\"", ",", "b">>}

SigValues == {<<>>, <<"v">>, <<"\"">>}

SigNames == {<<"a">>, <<"b">>}

\* label pairs in insertion order, every key at most once
LabelLists ==
    UNION {{l \in [1..n -> SigKeys \X SigValues] :
                \A i, j \in 1..n : l[i][1] = l[j][1] => i = j} : n \in 0..MaxLabels}

SigArgs == [name : SigNames, label : LabelLists]

SigCalls == [fn : {"GenerateSignature"}, args : SigArgs \X SigArgs]

\* the model at rest, as main constructs it, with a function call to make
AtRest(calls) ==
    /\ cfg \in Configs
    /\ cfg.History = MaxHistory
    /\ store = NewStore(cfg.History)
    /\ width = DefaultWidth
    /\ viewportReady = FALSE
    /\ content = NoContent
    /\ isPaused = FALSE
    /\ isConnected = FALSE
    /\ connectionError = "nil"
    /\ err = "nil"
    /\ msg = InitMsg
    /\ cmd = <<>>
    /\ inflight = <<>>
    /\ timers = 0
    /\ observed = [sig \in {} |-> Irregular]
    /\ showHelp = FALSE
    /\ call \in calls
    /\ result = NoResult

SigInit == AtRest(SigCalls)

\* both calls of GenerateSignature, the label map built as UpdateFromFamilies builds it
Sign ==
    /\ call.fn = "GenerateSignature"
    /\ ~result.returned
    /\ result' = Returned([i \in 1..2 |->
                    GenerateSignature(call.args[i].name, LabelMap(call.args[i].label))])
    /\ UNCHANGED <<cfg, store, isPaused, isConnected, connectionError, err, width, viewportReady,
                   content, inflight, timers, msg, cmd, observed, call, showHelp>>

SigNext == Sign

SigSpec == SigInit /\ [][SigNext]_vars

-----------------------------------------------------------------------------
(* MetricSeries.ValuesWithDeltas on its own: one call on a bounded series *)

DeltaSamples == {NaN, F(0), F(1), F(3)}

DeltaModes == {DeltaModeOff, DeltaModeNext, DeltaModeView}

\* the receivers: series with up to MaxSamples stored samples
DeltaSeries ==
    [Name : {<<"a">>}, Labels : {LabelMap(NoLabels)},
     Values : UNION {[1..n -> DeltaSamples] : n \in 0..MaxSamples}]

DeltaCalls == [fn : {"ValuesWithDeltas"}, series : DeltaSeries, mode : DeltaModes]

DeltaInit == AtRest(DeltaCalls)

\* s.ValuesWithDeltas(mode); the receiver is read and never assigned
Project ==
    /\ call.fn = "ValuesWithDeltas"
    /\ ~result.returned
    /\ result' = Returned(ValuesWithDeltas(call.series.Values, call.mode))
    /\ UNCHANGED <<cfg, store, isPaused, isConnected, connectionError, err, width, viewportReady,
                   content, inflight, timers, msg, cmd, observed, call, showHelp>>

DeltaNext == Project

DeltaSpec == DeltaInit /\ [][DeltaNext]_vars

-----------------------------------------------------------------------------
(* The filter of buildTable on its own: a store of series rendered under a *)
(* name pattern and a label pattern.                                        *)

\* -filter-metric values
NamePatterns == {<<>>, <<"a">>, <<"^", "b">>, <<"a", "$">>}

\* -filter-label values: regex over any value, key=value and key=~regex
LabelPatterns ==
    {<<>>, <<"v">>, <<"^", "v", "$">>, <<"k", ".", "*", "v">>,
     <<"k", "=", "v">>, <<"k", "=">>, <<"k", "=", "v", "=", "v">>, <<"b", "=", "v">>,
     <<"k", "=", "~", "v">>, <<"k", "=", "~", "^", "v", "$">>, <<"k", "=", "~">>,
     <<"k", "=", "~", "v", ".">>, <<"k", "=", "~", "*">>, <<"*", "v">>, <<".", "*">>}

\* main exits unless both patterns compile as regular expressions
FilterConfigs ==
    {c \in [Interval : {DefaultIntervalMs}, History : {MaxHistory}, LabelMode : {LabelModeShowAll},
            FilterMetric : NamePatterns, FilterLabel : LabelPatterns, DeltaMode : {DeltaModeOff}] :
        ValidRegex(c.FilterMetric) /\ ValidRegex(c.FilterLabel)}

\* the metrics of the endpoint, as name and label pairs
FilterMetrics ==
    {[name |-> <<"a">>, label |-> <<>>],
     [name |-> <<"a", "b">>, label |-> << <<(<<"k">>), (<<"v">>)>> >>],
     [name |-> <<"b">>, label |-> << <<(<<"k">>), (<<"v", "v">>)>> >>],
     [name |-> <<"a">>, label |-> << <<(<<"b">>), (<<"v">>)>>, <<(<<"k">>), (<<"k", "b">>)>> >>],
     [name |-> <<"b">>, label |-> << <<(<<"k">>), (<<"v", "=", "v">>)>> >>],
     [name |-> <<"b", "a">>, label |-> << <<(<<"k">>), (<<>>)>> >>]}

\* the store after one update that observed the metrics of ms, each with the value 1
StoreOf(ms, historyLimit) ==
    LET sigs == {GenerateSignature(m.name, LabelMap(m.label)) : m \in ms}
    IN  [Metrics |->
            [sig \in sigs |->
                LET m == CHOOSE x \in ms : GenerateSignature(x.name, LabelMap(x.label)) = sig
                IN  [Name |-> m.name, Labels |-> LabelMap(m.label),
                     Values |-> appendValue(NewStore(historyLimit), <<>>, F(1))]],
         HistoryLimit |-> historyLimit]

FilterInit ==
    /\ cfg \in FilterConfigs
    /\ \E ms \in {x \in SUBSET FilterMetrics : Cardinality(x) <= MaxSeries} :
           store = StoreOf(ms, cfg.History)
    /\ width = DefaultWidth
    /\ viewportReady = FALSE
    /\ content = NoContent
    /\ isPaused = FALSE
    /\ isConnected = TRUE
    /\ connectionError = "nil"
    /\ err = "nil"
    /\ msg = InitMsg
    /\ cmd = <<>>
    /\ inflight = <<>>
    /\ timers = 0
    /\ observed = [sig \in {} |-> Irregular]
    /\ showHelp = FALSE
    /\ call = NoCall
    /\ result = NoResult

\* the table is built from the store when the terminal reports its size
FilterNext == Resize

FilterSpec == FilterInit /\ [][FilterNext]_vars

-----------------------------------------------------------------------------
(* The layout of buildTable on its own: a store rendered at every terminal *)
(* width, history capacity and poll interval.                               *)

Gauge(label, v) == [name |-> <<"a">>, label |-> label, kind |-> "gauge", value |-> F(v)]

\* what the endpoint answered, cycle by cycle: a wide value between two
\* narrow ones; two series, each missing from one cycle; a single cycle
LayoutFeeds ==
    {<< <<Gauge(NoLabels, 1)>>, <<Gauge(NoLabels, 1000000)>>, <<Gauge(NoLabels, 1)>> >>,
     << <<Gauge(NoLabels, 1), Gauge(LabelKV, 22)>>, <<Gauge(LabelKV, 22)>>,
        <<Gauge(NoLabels, 22)>> >>,
     << <<Gauge(NoLabels, 1000000)>>, <<Gauge(NoLabels, 22)>>, <<Gauge(NoLabels, 22)>>,
        <<Gauge(NoLabels, 1)>> >>,
     << <<Gauge(LabelKV, 1)>> >>,
     << <<Gauge(NoLabels, 1)>>, <<Gauge(NoLabels, 22), Gauge(LabelKV, 1)>> >>}

\* the store after the updates of a feed, one UpdateFromFamilies per cycle
RECURSIVE Feed(_, _)
Feed(s, feed) ==
    IF feed = <<>> THEN s ELSE Feed(UpdateFromFamilies(s, Head(feed)), Tail(feed))

\* -interval values in milliseconds: half a second, two and a half seconds, the default
LayoutIntervals == {500, 2500, DefaultIntervalMs}

LayoutConfigs ==
    [Interval : LayoutIntervals, History : 1..MaxColumns, LabelMode : {LabelModeShowAll},
     FilterMetric : {<<>>}, FilterLabel : {<<>>}, DeltaMode : {DeltaModeOff, DeltaModeNext}]

LayoutWidths == 0..MaxWidth

LayoutInit ==
    /\ cfg \in LayoutConfigs
    /\ \E feed \in LayoutFeeds : store = Feed(NewStore(cfg.History), feed)
    /\ width = DefaultWidth
    /\ viewportReady = FALSE
    /\ content = NoContent
    /\ isPaused = FALSE
    /\ isConnected = TRUE
    /\ connectionError = "nil"
    /\ err = "nil"
    /\ msg = InitMsg
    /\ cmd = <<>>
    /\ inflight = <<>>
    /\ timers = 0
    /\ observed = [sig \in {} |-> Irregular]
    /\ showHelp = FALSE
    /\ call = NoCall
    /\ result = NoResult

\* the terminal is resized to any width
LayoutNext == \E w \in LayoutWidths : WindowSize(w)

LayoutSpec == LayoutInit /\ [][LayoutNext]_vars

-----------------------------------------------------------------------------
(* The event loop with the display keys, polling an endpoint that serves the *)
(* counter requests_total. Every fetch completes before the next tick.       *)

DisplayConfigs ==
    [Interval : {DefaultIntervalMs}, History : {Len(ScenarioValues)},
     LabelMode : {LabelModeShowAll}, FilterMetric : {<<>>}, FilterLabel : {<<>>}, DeltaMode : {DeltaModeOff, DeltaModeNext}]

DisplayInit ==
    /\ cfg \in DisplayConfigs
    /\ store = NewStore(cfg.History)
    /\ width = DefaultWidth
    /\ viewportReady = FALSE
    /\ content = NoContent
    /\ isPaused = FALSE
    /\ isConnected = FALSE
    /\ connectionError = "nil"
    /\ err = "nil"
    /\ msg = InitMsg
    /\ cmd = <<"fetch", "tick">>
    /\ inflight = <<NewFetch>>
    /\ timers = 1
    /\ observed = [sig \in {} |-> Irregular]
    /\ showHelp = FALSE
    /\ call = NoCall
    /\ result = NoResult

\* the number of polls the store has merged
Merged == IF DOMAIN store.Metrics = {} THEN 0
          ELSE Len(store.Metrics[CHOOSE sig \in DOMAIN store.Metrics : TRUE].Values)

\* the endpoint serves the counter's next value
ServedFamilies ==
    <<[name |-> RequestsTotal, label |-> NoLabels, kind |-> "counter",
       value |-> ScenarioValues[Merged + 1]]>>

DisplayTick == inflight = <<>> /\ Tick

DisplayFetchSuccess ==
    /\ Merged < Len(ScenarioValues)
    /\ \E i \in DOMAIN inflight : FetchSucceeded(i, ServedFamilies)

DisplayNext ==
    \/ DisplayTick
    \/ DisplayFetchSuccess
    \/ FetchFailure
    \/ KeyP
    \/ KeyD
    \/ KeyL
    \/ KeyHelp
    \/ Resize

DisplaySpec == DisplayInit /\ [][DisplayNext]_vars

-----------------------------------------------------------------------------
(* Helpers of the properties *)

Min(a, b) == IF a < b THEN a ELSE b

\* the most recent n elements of q (all of q when it is shorter)
KeepLast(q, n) == SubSeq(q, Len(q) - Min(n, Len(q)) + 1, Len(q))

Values(s, sig) == IF sig \in DOMAIN s.Metrics THEN s.Metrics[sig].Values ELSE <<>>

\* what one cycle contributes to series sig: its observations, or one NaN
CycleSamples(families, sig) ==
    IF ObservedValues(families, sig) = <<>> THEN <<NaN>> ELSE ObservedValues(families, sig)

SnapshotSigs(families) ==
    {SigOf[families[i]] :
        i \in {j \in DOMAIN families : HasValue(families[j])}}

\* the step hands a snapshot to Store.UpdateFromFamilies
IsUpdate == msg'.type = "families" /\ ~isPaused

\* the snapshot of the step is merged into the store once, series by series
MergedOnce ==
    /\ store'.HistoryLimit = store.HistoryLimit
    /\ DOMAIN store'.Metrics = DOMAIN store.Metrics \cup SnapshotSigs(msg'.families)
    /\ \A sig \in DOMAIN store'.Metrics :
          Values(store', sig) =
              KeepLast(Values(store, sig) \o CycleSamples(msg'.families, sig), store.HistoryLimit)

OnceEachCycle(sig) == sig \in DOMAIN observed /\ observed[sig].regular

AppliedValues(sig) == observed[sig].values

-----------------------------------------------------------------------------
(* Properties of the store *)

\* C1: a series observed exactly once in every cycle since its creation, with
\* HistoryLimit N >= 1, holds after every cycle min(N, cycles) samples, and
\* they are the most recent min(N, cycles) observed values, oldest first.
C1_SlidingWindow ==
    \A sig \in DOMAIN store.Metrics :
        (store.HistoryLimit >= 1 /\ OnceEachCycle(sig)) =>
            LET total == Len(AppliedValues(sig))
                n == Min(store.HistoryLimit, total)
            IN  /\ Len(Values(store, sig)) = n
                /\ Values(store, sig) = SubSeq(AppliedValues(sig), total - n + 1, total)

\* a series observed once per cycle for more cycles than the capacity: the oldest value is gone
C1_Witness ==
    \E sig \in DOMAIN observed :
        /\ store.HistoryLimit >= 1
        /\ OnceEachCycle(sig)
        /\ Len(AppliedValues(sig)) > store.HistoryLimit
        /\ AppliedValues(sig)[1] # AppliedValues(sig)[2]
        /\ Values(store, sig)[1] =
               AppliedValues(sig)[Len(AppliedValues(sig)) - store.HistoryLimit + 1]

\* C2: every series of the store holds between 1 and HistoryLimit samples.
C2_LengthBounds ==
    \A sig \in DOMAIN store.Metrics :
        /\ 1 <= Len(Values(store, sig))
        /\ Len(Values(store, sig)) <= store.HistoryLimit

\* C3: one call of UpdateFromFamilies gives every series of the store exactly
\* one sample: an existing series gains one sample (then the oldest is evicted
\* when over capacity), a series created by the call ends with one sample.
\* Stated for capacities N >= 1, where eviction cannot remove the only sample.
C3_OneSamplePerCycle ==
    [][(IsUpdate /\ store.HistoryLimit >= 1) =>
        \A sig \in DOMAIN store'.Metrics :
            IF sig \in DOMAIN store.Metrics
            THEN \E x \in SampleValues \cup {NaN} :
                    Values(store', sig) =
                        KeepLast(Append(Values(store, sig), x), store.HistoryLimit)
            ELSE Len(Values(store', sig)) = 1]_vars

\* C4: a series of the store that the snapshot does not contain gains exactly
\* one NaN at its tail (the oldest sample is evicted when over capacity), and
\* what every other series gains is decided by its own observations alone.
C4_MissingGetsNaN ==
    [][IsUpdate =>
        \A sig \in DOMAIN store.Metrics :
            ObservedValues(msg'.families, sig) = <<>> =>
                /\ sig \in DOMAIN store'.Metrics
                /\ Values(store', sig) =
                       KeepLast(Append(Values(store, sig), NaN), store.HistoryLimit)
                /\ \A other \in DOMAIN store'.Metrics \ {sig} :
                       Values(store', other) =
                           KeepLast(Values(store, other) \o CycleSamples(msg'.families, other),
                                    store.HistoryLimit)]_vars

\* a series absent from the latest snapshot, next to one that was observed in it
C4_Witness ==
    /\ msg.type = "families"
    /\ \E sig \in DOMAIN store.Metrics : \E other \in DOMAIN store.Metrics \ {sig} :
        /\ ObservedValues(msg.families, sig) = <<>>
        /\ ObservedValues(msg.families, other) # <<>>
        /\ Len(Values(store, sig)) >= 2
        /\ IsNaN(Values(store, sig)[Len(Values(store, sig))])
        /\ ~IsNaN(Values(store, sig)[Len(Values(store, sig)) - 1])
        /\ ~IsNaN(Values(store, other)[Len(Values(store, other))])

-----------------------------------------------------------------------------
(* Properties of the event loop *)

HasSamples == \E sig \in DOMAIN store.Metrics : Values(store, sig) # <<>>

\* C5: a fetch failure handled while not paused sets the state ErrorRetrying
\* (isConnected false, connectionError the error) and leaves the store as it was.
C5_FailureKeepsStore ==
    [][(msg'.type = "error" /\ ~isPaused) =>
        /\ isConnected' = FALSE
        /\ connectionError' = msg'.err
        /\ store' = store]_vars

\* a failure handled, not paused, with samples in the store
C5_Witness ==
    /\ msg.type = "error"
    /\ ~isPaused
    /\ ~isConnected
    /\ connectionError = msg.err
    /\ HasSamples

\* C6: a fetch success handled while not paused merges the snapshot once,
\* sets isConnected and clears connectionError.
C6_SuccessConnects ==
    [][(msg'.type = "families" /\ ~isPaused) =>
        /\ MergedOnce
        /\ isConnected' = TRUE
        /\ connectionError' = "nil"]_vars

\* a non-empty snapshot handled while not paused
C6_Witness ==
    /\ msg.type = "families"
    /\ ~isPaused
    /\ SnapshotSigs(msg.families) # {}
    /\ isConnected
    /\ connectionError = "nil"
    /\ HasSamples

\* C7: a fetch success handled while paused is discarded: the store, the
\* connection state, the stored error and the viewport content stay as they were.
C7_PausedSuccessDiscarded ==
    [][(msg'.type = "families" /\ isPaused) =>
        /\ store' = store
        /\ isConnected' = isConnected
        /\ connectionError' = connectionError
        /\ content' = content]_vars

\* a non-empty snapshot handled while paused, with a table on display
C7_Witness ==
    /\ msg.type = "families"
    /\ isPaused
    /\ SnapshotSigs(msg.families) # {}
    /\ viewportReady
    /\ content.kind = "table"

\* C8: a fetch failure handled while paused leaves isConnected and
\* connectionError unchanged.
C8_PausedFailureDiscarded ==
    [][(msg'.type = "error" /\ isPaused) =>
        /\ isConnected' = isConnected
        /\ connectionError' = connectionError]_vars

\* C9: a fetch issued before a pause is never merged into the store after the
\* subsequent unpause.
C9_NoStaleMerge ==
    [][(msg'.type = "families" /\ msg'.fetch.pausedSince /\ ~isPaused) =>
        store' = store]_vars

\* C9 as amended: a result handled while paused is consumed without being
\* merged, only an unpaused fetch success changes the store, and a fetch
\* issued before a pause whose result is handled after the unpause is merged
\* like any other.
C9_DiscardedNeverMerged ==
    [][/\ (msg'.type = "families" /\ isPaused) =>
              (store' = store /\ Len(inflight') = Len(inflight) - 1)
       /\ (store' # store) => (msg'.type = "families" /\ ~isPaused)
       /\ (msg'.type = "families" /\ msg'.fetch.pausedSince /\ ~isPaused) => MergedOnce]_vars

\* a fetch issued before a pause, handled after the unpause, and merged
C9_Witness ==
    /\ msg.type = "families"
    /\ msg.fetch.pausedSince
    /\ ~isPaused
    /\ SnapshotSigs(msg.families) # {}
    /\ \A sig \in SnapshotSigs(msg.families) : sig \in DOMAIN store.Metrics

\* C10: a tick handled while not paused issues one fetch and schedules one
\* tick; while paused it schedules one tick and issues no fetch; the next
\* timer is pending whatever fetches are still in flight.
C10_TickHandling ==
    [][msg'.type = "tick" =>
        /\ Count(cmd', "tick") = 1
        /\ Count(cmd', "fetch") = (IF isPaused THEN 0 ELSE 1)
        /\ Len(cmd') = Count(cmd', "tick") + Count(cmd', "fetch")
        /\ timers' = timers
        /\ timers' >= 1
        /\ Len(inflight') = Len(inflight) + (IF isPaused THEN 0 ELSE 1)
        /\ \A i \in DOMAIN inflight : inflight'[i] = inflight[i]]_vars

\* a tick handled while an earlier fetch is still in flight: both fetches and the timer are pending
C10_Witness ==
    /\ msg.type = "tick"
    /\ ~isPaused
    /\ cmd = <<"fetch", "tick">>
    /\ Len(inflight) >= 2
    /\ timers = 1

\* C11: handling the key 'p' flips isPaused and nothing else: no command is
\* returned (no fetch issued, no timer scheduled), every fetch in flight and
\* every pending timer stays, and the store, the connection state, the stored
\* error and the rest of the model are unchanged; for pause and for unpause.
C11_PauseOnlyFlipsFlag ==
    [][(msg'.type = "key" /\ msg'.key = "p") =>
        /\ isPaused' = ~isPaused
        /\ cmd' = <<>>
        /\ Len(inflight') = Len(inflight)
        /\ timers' = timers
        /\ store' = store
        /\ isConnected' = isConnected
        /\ connectionError' = connectionError
        /\ err' = err
        /\ <<cfg, width, viewportReady, content>>' = <<cfg, width, viewportReady, content>>]_vars

\* 'p' handled as an unpause while a fetch issued before the pause is still
\* in flight, the timer is pending and the store holds samples
C11_Witness ==
    /\ msg.type = "key"
    /\ msg.key = "p"
    /\ ~isPaused
    /\ \E i \in DOMAIN inflight : inflight[i].pausedSince
    /\ timers = 1
    /\ HasSamples

\* C12: a fetch failure is not fatal and is retried: err stays nil in every
\* state and handling a failure returns no command (no quit) and keeps the
\* timer pending; with a stored connection error, a tick handled while not
\* paused issues a fetch, and a success handled while not paused sets
\* isConnected and clears connectionError.
C12_FailureRetried ==
    [][/\ err' = "nil"
       /\ (msg'.type = "error") => (cmd' = <<>> /\ timers' = timers /\ timers' >= 1)
       /\ (msg'.type = "tick" /\ connectionError # "nil" /\ ~isPaused) =>
              (Count(cmd', "fetch") = 1 /\ Len(inflight') = Len(inflight) + 1)
       /\ (msg'.type = "families" /\ connectionError # "nil" /\ ~isPaused) =>
              (isConnected' /\ connectionError' = "nil")]_vars

\* after a failure, a tick handled while not paused has issued the retry
C12_Witness ==
    /\ msg.type = "tick"
    /\ ~isPaused
    /\ ~isConnected
    /\ connectionError # "nil"
    /\ err = "nil"
    /\ cmd = <<"fetch", "tick">>
    /\ inflight # <<>>

-----------------------------------------------------------------------------
(* Properties of GenerateSignature *)

Signed == call.fn = "GenerateSignature" /\ result.returned

\* the key/value pairs of a label list, as a set
PairSet(label) == {label[i] : i \in DOMAIN label}

\* the pairs of a label list in ascending key order
RECURSIVE Ascending(_)
Ascending(pairs) ==
    IF pairs = {} THEN <<>>
    ELSE LET least == CHOOSE p \in pairs : \A q \in pairs \ {p} : StrLess(p[1], q[1])
         IN  <<least>> \o Ascending(pairs \ {least})

\* name{k1="v1",k2="v2",...} over the pairs in ascending key order
CanonicalForm(name, label) ==
    LET sorted == Ascending(PairSet(label))
    IN  name \o <<"{">>
        \o Join([i \in DOMAIN sorted |-> sorted[i][1] \o <<"=">> \o Quote(sorted[i][2])], <<",">>)
        \o <<"}">>

\* C14: two calls with the same name and the same key/value pairs, in any
\* insertion order, return equal signatures, and every signature has the
\* canonical form name{k1="v1",k2="v2",...} with the keys ascending.
C14_OrderIndependent ==
    Signed =>
        /\ (/\ call.args[1].name = call.args[2].name
            /\ PairSet(call.args[1].label) = PairSet(call.args[2].label))
               => result.value[1] = result.value[2]
        /\ \A i \in 1..2 : result.value[i] = CanonicalForm(call.args[i].name, call.args[i].label)

\* the same two labels inserted in opposite orders, the later key sorting first
C14_Witness ==
    /\ Signed
    /\ call.args[1].name = call.args[2].name
    /\ Len(call.args[1].label) = 2
    /\ call.args[1].label # call.args[2].label
    /\ PairSet(call.args[1].label) = PairSet(call.args[2].label)
    /\ StrLess(call.args[1].label[2][1], call.args[1].label[1][1])
    /\ result.value[1] = result.value[2]

\* C15: two calls that differ in the name, in a label key or in a label value
\* return different signatures.
C15_Injective ==
    Signed =>
        ((\/ call.args[1].name # call.args[2].name
          \/ PairSet(call.args[1].label) # PairSet(call.args[2].label))
             => result.value[1] # result.value[2])

-----------------------------------------------------------------------------
(* Properties of ValuesWithDeltas *)

Projected(mode) == call.fn = "ValuesWithDeltas" /\ call.mode = mode /\ result.returned

\* the entry of a historical index: the change into the next sample, missing
\* when either sample is missing
DeltaToNext(samples, i) ==
    IF samples[i] = NaN \/ samples[i + 1] = NaN
    THEN NaN
    ELSE F(samples[i + 1].v - samples[i].v)

\* the indices below the last that hold a sample
Present(samples) == {i \in 1..(Len(samples) - 1) : samples[i] # NaN}

\* C16: in mode "next" every index below the last holds
\* samples[i+1] - samples[i], or the missing-sentinel when either sample is
\* the sentinel, and the last index holds samples[last] unchanged.
C16_NextDeltas ==
    Projected(DeltaModeNext) =>
        LET samples == call.series.Values
            output == result.value
        IN  /\ DOMAIN output = DOMAIN samples
            /\ \A i \in 1..(Len(samples) - 1) : output[i] = DeltaToNext(samples, i)
            /\ samples # <<>> => output[Len(samples)] = samples[Len(samples)]

\* mode "next" on a series with a delta, a missing sample inside and a last sample
C16_Witness ==
    /\ Projected(DeltaModeNext)
    /\ Len(call.series.Values) >= 4
    /\ \E i \in 1..3 : result.value[i] # NaN /\ result.value[i].v > 0
    /\ \E i \in 1..3 : call.series.Values[i] = NaN
    /\ result.value[Len(result.value)] = F(3)

\* C17: in mode "view" the historical indices are those of mode "next", and
\* the last index holds samples[last_hist] - samples[first], first and
\* last_hist being the earliest and the latest index below the last with a
\* sample, when both exist and differ, and the missing-sentinel otherwise.
C17_ViewDeltas ==
    Projected(DeltaModeView) =>
        LET samples == call.series.Values
            output == result.value
            last == Len(samples)
            present == Present(samples)
            first == CHOOSE i \in present : \A j \in present : i <= j
            last_hist == CHOOSE i \in present : \A j \in present : j <= i
        IN  /\ DOMAIN output = DOMAIN samples
            /\ \A i \in 1..(last - 1) : output[i] = DeltaToNext(samples, i)
            /\ samples # <<>> =>
                   output[last] = IF present # {} /\ first # last_hist
                                  THEN F(samples[last_hist].v - samples[first].v)
                                  ELSE NaN
            /\ last \in 1..2 => output[last] = NaN

\* mode "view" on a series whose first sample is missing and whose window has a delta
C17_Witness ==
    /\ Projected(DeltaModeView)
    /\ Len(call.series.Values) = 4
    /\ call.series.Values[1] = NaN
    /\ call.series.Values[4] = NaN
    /\ result.value[4] = F(2)

\* C18: in mode "off" the result equals the stored samples, element for element.
C18_OffIsIdentity ==
    Projected(DeltaModeOff) => result.value = call.series.Values

\* mode "off" on a series holding values and a missing sample
C18_Witness ==
    /\ Projected(DeltaModeOff)
    /\ Len(result.value) >= 3
    /\ \E i \in DOMAIN result.value : result.value[i] = NaN
    /\ \E i \in DOMAIN result.value : result.value[i] = F(3)

\* C19: in every mode the result has the length of the stored samples (empty
\* for an empty series), and the call leaves the stored Values as they were.
C19_SameLength ==
    [][(call.fn = "ValuesWithDeltas" /\ result'.returned /\ ~result.returned) =>
        /\ Len(result'.value) = Len(call.series.Values)
        /\ call'.series.Values = call.series.Values]_vars

\* a projection with deltas of a series of full length
C19_Witness ==
    /\ call.fn = "ValuesWithDeltas"
    /\ result.returned
    /\ call.mode # DeltaModeOff
    /\ Len(call.series.Values) = MaxSamples
    /\ Len(result.value) = MaxSamples

-----------------------------------------------------------------------------
(* Properties of the filter *)

\* the position of the first "=" of a pattern, 0 when it has none
FirstEquals(pattern) ==
    IF \E i \in DOMAIN pattern : pattern[i] = "="
    THEN CHOOSE i \in DOMAIN pattern : pattern[i] = "=" /\ \A j \in 1..(i - 1) : pattern[j] # "="
    ELSE 0

NameCheck(pattern, series) == pattern = <<>> \/ MatchString(pattern, series.Name)

LabelCheck(pattern, series) ==
    LET eq == FirstEquals(pattern)
        key == SubSeq(pattern, 1, eq - 1)
        after == SubSeq(pattern, eq + 1, Len(pattern))
    IN  \/ pattern = <<>>
        \/ /\ eq # 0
           /\ after # <<>> /\ Head(after) = "~"
           /\ key \in DOMAIN series.Labels
           /\ MatchString(Tail(after), series.Labels[key])
        \/ /\ eq # 0
           /\ ~(after # <<>> /\ Head(after) = "~")
           /\ key \in DOMAIN series.Labels
           /\ series.Labels[key] = after
        \/ /\ pattern # <<>>
           /\ eq = 0
           /\ \E k \in DOMAIN series.Labels : MatchString(pattern, series.Labels[k])

\* the series of the store that pass both checks
Included ==
    {sig \in DOMAIN store.Metrics :
        /\ NameCheck(cfg.FilterMetric, store.Metrics[sig])
        /\ LabelCheck(cfg.FilterLabel, store.Metrics[sig])}

\* the name cells of the rows on display
Displayed == {content.rows[r][1] : r \in DOMAIN content.rows}

\* C20: the rendered view holds one row for every series that passes the name
\* check and the label check, and no other row: an empty pattern passes;
\* the name passes when it matches the name pattern as an unanchored regex;
\* key=~regex passes when the series has the key with a value matching the
\* regex, key=value when it has the key with exactly that value, and a
\* pattern without "=" when some label value matches it as a regex.
C20_FilterInclusion ==
    viewportReady =>
        /\ Displayed = {NameCell(cfg, store.Metrics[sig]) : sig \in Included}
        /\ Len(content.rows) = Cardinality(Included)
        /\ (Included = {}) <=> (content = NoMetrics)

\* a name pattern and a label pattern of the form key=... that between them
\* keep one series and drop another
C20_Witness ==
    /\ viewportReady
    /\ cfg.FilterMetric # <<>>
    /\ FirstEquals(cfg.FilterLabel) # 0
    /\ content.kind = "table"
    /\ Len(content.rows) = 1
    /\ Cardinality(DOMAIN store.Metrics) = 2
    /\ \A sig \in DOMAIN store.Metrics : NameCheck(cfg.FilterMetric, store.Metrics[sig])

\* the regular expressions the filter of buildTable hands to regexp.MatchString
\* when it is applied to the series of the store
MatchedRegexes ==
    LET eq == FirstEquals(cfg.FilterLabel)
        key == SubSeq(cfg.FilterLabel, 1, eq - 1)
        after == SubSeq(cfg.FilterLabel, eq + 1, Len(cfg.FilterLabel))
        named == {sig \in DOMAIN store.Metrics : NameCheck(cfg.FilterMetric, store.Metrics[sig])}
    IN  (IF cfg.FilterMetric # <<>> /\ DOMAIN store.Metrics # {}
         THEN {cfg.FilterMetric} ELSE {})
        \cup (IF /\ eq # 0
                 /\ after # <<>> /\ Head(after) = "~"
                 /\ \E sig \in named : key \in DOMAIN store.Metrics[sig].Labels
              THEN {Tail(after)} ELSE {})
        \cup (IF /\ cfg.FilterLabel # <<>>
                 /\ eq = 0
                 /\ \E sig \in named : DOMAIN store.Metrics[sig].Labels # {}
              THEN {cfg.FilterLabel} ELSE {})

\* C21: the patterns are validated at startup, so every regular expression
\* matched against a series when the table is built compiles.
C21_RegexesCompile ==
    viewportReady => \A pattern \in MatchedRegexes : ValidRegex(pattern)

-----------------------------------------------------------------------------
(* Properties of the configuration *)

\* C22: the event loop never runs with a history capacity below 1: every
\* message is handled with cfg.History >= 1 and store.HistoryLimit >= 1.
C22_HistoryAtLeastOne ==
    [][cfg.History >= 1 /\ store.HistoryLimit >= 1]_vars

-----------------------------------------------------------------------------
(* Properties of the layout *)

\* the series of the store in ascending signature order
RECURSIVE SortedSigs(_)
SortedSigs(sigs) ==
    IF sigs = {} THEN <<>>
    ELSE LET least == CHOOSE x \in sigs : \A y \in sigs \ {x} : StrLess(x, y)
         IN  <<least>> \o SortedSigs(sigs \ {least})

SortedSeries == [i \in 1..Cardinality(DOMAIN store.Metrics) |->
                    store.Metrics[SortedSigs(DOMAIN store.Metrics)[i]]]

\* the candidate grid: every series (no filter is set), every value column
CandidateRows == buildTableRows(cfg, SortedSeries)

CandidateWidths == calculateColumnWidths(Headers(cfg), CandidateRows)

IsSuffix(x, y) == Len(x) <= Len(y) /\ x = SubSeq(y, Len(y) - Len(x) + 1, Len(y))

Rendered == viewportReady /\ content.kind = "table"

\* the number of value columns on display
Shown(table) == Len(table.headers) - 1

\* the summed widths of the k most recent value columns
RECURSIVE SumRecent(_, _)
SumRecent(widths, k) ==
    IF k = 0 THEN 0 ELSE widths[Len(widths) - k + 1] + SumRecent(widths, k - 1)

\* the greedy selection: the most value columns, taken from the most recent
\* backwards, such that at every column added the running total, begun at
\* start and grown by the column's width plus one border, is within w; one
\* column when not even the most recent fits
Selected(widths, w, start) ==
    LET fitting == {k \in 1..(Len(widths) - 1) :
                       \A j \in 1..k : start + SumRecent(widths, j) + j <= w}
    IN  IF fitting = {} THEN 1 ELSE CHOOSE k \in fitting : \A j \in fitting : j <= k

\* C23: when the terminal gets narrower with the store and the options
\* unchanged, the number of value columns on display does not grow and is
\* never below 1, and at every width the columns on display are the name
\* column and the most recent candidate value columns, the current one included.
C23_NarrowingDropsOldest ==
    [][(msg'.type = "resize" /\ Rendered /\ width' <= width) =>
        /\ content'.kind = "table"
        /\ Shown(content') <= Shown(content)
        /\ Shown(content') >= 1
        /\ content'.headers[1] = Headers(cfg)[1]
        /\ IsSuffix(Tail(content'.headers), Tail(Headers(cfg)))
        /\ content'.headers[Len(content'.headers)] = <<"C", "u", "r", "r">>
        /\ DOMAIN content'.rows = DOMAIN CandidateRows
        /\ \A r \in DOMAIN content'.rows :
               /\ Len(content'.rows[r]) = Len(content'.headers)
               /\ content'.rows[r][1] = CandidateRows[r][1]
               /\ IsSuffix(Tail(content'.rows[r]), Tail(CandidateRows[r]))]_vars

\* a terminal showing two of three candidate value columns, the oldest dropped
C23_Witness ==
    /\ Rendered
    /\ msg.type = "resize"
    /\ cfg.History = 3
    /\ Shown(content) = 2
    /\ \E r \in DOMAIN content.rows : content.rows[r][2] # <<>>

\* C24: the fit starts at the width of the name column plus one border.
C24_FitFromOneBorder ==
    Rendered => Shown(content) = Selected(CandidateWidths, width, CandidateWidths[1] + 1)

\* C24 as amended: the fit starts at the left border plus the width of the
\* name column plus its right border, adds value columns from the most
\* recent to the oldest, each with one border, while the running total is
\* within the terminal width, stops at the first column that overflows, and
\* keeps one value column when none fits.
C24_FitFromTwoBorders ==
    Rendered => Shown(content) = Selected(CandidateWidths, width, 1 + CandidateWidths[1] + 1)

\* the fit stopped at a wide column although the narrower column before it
\* would have fitted in its place
C24_Witness ==
    /\ Rendered
    /\ Len(CandidateWidths) = 4
    /\ Shown(content) = 1
    /\ 1 + CandidateWidths[1] + 1 + CandidateWidths[4] + 1 + CandidateWidths[3] + 1 > width
    /\ 1 + CandidateWidths[1] + 1 + CandidateWidths[4] + 1 + CandidateWidths[2] + 1 <= width

C27_HeaderAges ==
    Rendered =>
        LET n == Len(content.headers)
        IN  /\ content.headers[n] = <<"C", "u", "r", "r">>
            /\ \A k \in 1..(n - 2) :
                   (k * cfg.Interval) % 1000 = 0 =>
                       content.headers[n - k] =
                           <<"-">> \o FormatInt((k * cfg.Interval) \div 1000) \o <<"s">>

-----------------------------------------------------------------------------
(* Properties of the empty result *)

\* C28: a render with no series passing the filter, the empty store included,
\* yields "No metrics to display"; a table is never an empty grid; and the
\* render leaves the fatal error and the connection state as they were.
C28_NoMetricsIsExplicit ==
    [][msg'.type = "resize" =>
        /\ Included = {} => content' = NoMetrics
        /\ content'.kind = "table" =>
               /\ content'.rows # <<>>
               /\ \A r \in DOMAIN content'.rows : Len(content'.rows[r]) >= 2
        /\ content'.kind \in {"table", NoMetrics.kind}
        /\ err' = err
        /\ isConnected' = isConnected
        /\ connectionError' = connectionError]_vars

\* a store holding series, none of which passes the filter, after a render
C28_Witness ==
    /\ viewportReady
    /\ msg.type = "resize"
    /\ store.Metrics # NewStore(cfg.History).Metrics
    /\ Included = {}
    /\ content = NoMetrics
    /\ err = "nil"
    /\ isConnected

-----------------------------------------------------------------------------
(* Properties of the lifetime of a series *)

\* C29: an update cycle removes no series from the store, and a series that
\* the latest N or more cycles in a row did not observe holds only the
\* missing-sentinel, is still in the store and still has its row in the table
\* (no filter is set, so every series passes).
C29_SeriesNeverRemoved ==
    [][/\ DOMAIN store.Metrics \subseteq DOMAIN store'.Metrics
       /\ \A sig \in DOMAIN observed' :
              (cfg.History >= 1 /\ observed'[sig].missed >= cfg.History) =>
                  /\ sig \in DOMAIN store'.Metrics
                  /\ \A i \in DOMAIN store'.Metrics[sig].Values :
                         store'.Metrics[sig].Values[i] = NaN
                  /\ LET table == buildTable(cfg, store', DefaultWidth)
                     IN  /\ table.kind = "table"
                         /\ \E r \in DOMAIN table.rows :
                                table.rows[r][1] = NameCell(cfg, store'.Metrics[sig])]_vars

\* a series missed for the whole window next to one observed in the latest cycle
C29_Witness ==
    /\ cfg.History = MaxHistory
    /\ \E sig \in DOMAIN observed :
           /\ observed[sig].missed >= cfg.History
           /\ Len(store.Metrics[sig].Values) = cfg.History
    /\ \E sig \in DOMAIN observed :
           /\ observed[sig].missed = 0
           /\ store.Metrics[sig].Values[Len(store.Metrics[sig].Values)] # NaN

-----------------------------------------------------------------------------
(* Properties of the display *)

TheSeries == store.Metrics[GenerateSignature(RequestsTotal, LabelMap(NoLabels))]

\* history 3, delta mode next, the three values merged, the table on display
ScenarioShown ==
    /\ cfg.History = 3
    /\ cfg.DeltaMode = DeltaModeNext
    /\ DOMAIN store.Metrics = {GenerateSignature(RequestsTotal, LabelMap(NoLabels))}
    /\ TheSeries.Values = <<F(100), F(140), F(190)>>
    /\ viewportReady
    /\ width = DefaultWidth

\* C26: in the scenario the value cells of the series are 40, 50, 190.
C26_ScenarioCells ==
    ScenarioShown =>
        Tail(content.rows[1]) = << <<"4", "0">>, <<"5", "0">>, <<"1", "9", "0">> >>

\* C26 as amended: in the scenario the value cells of the series are +40,
\* +50, 190: a positive delta is shown with an explicit plus sign, the
\* current value without one.
C26_ScenarioSignedCells ==
    ScenarioShown =>
        /\ content.kind = "table"
        /\ Len(content.rows) = 1
        /\ Tail(content.rows[1]) =
               << <<"+", "4", "0">>, <<"+", "5", "0">>, <<"1", "9", "0">> >>

\* the scenario on display right after the third value was merged
C26_Witness ==
    /\ ScenarioShown
    /\ msg.type = "families"
    /\ ~isPaused
    /\ content.rows[1][1] = RequestsTotal

\* C30: the keys d, l, ? and p, a resize, a tick, a failed fetch and a fetch
\* result handled while paused leave the series of the store and their
\* Values as they were, re-rendering included; only a fetch success handled
\* while not paused changes the store.
C30_DisplayLeavesStore ==
    [][/\ (msg'.type \in {"key", "resize", "tick", "error"}) => store' = store
       /\ (msg'.type = "families" /\ isPaused) => store' = store
       /\ content' # content => (store' = store \/ (msg'.type = "families" /\ ~isPaused))
       /\ store' # store => (msg'.type = "families" /\ ~isPaused)]_vars

\* a table of deltas on display over a store with history, after the key d
C30_Witness ==
    /\ msg = KeyMsg("d")
    /\ viewportReady
    /\ cfg.DeltaMode = DeltaModeView
    /\ content.kind = "table"
    /\ DOMAIN store.Metrics # {}
    /\ Len(TheSeries.Values) = 3
    /\ showHelp

-----------------------------------------------------------------------------
(* Properties of the cells *)

\* the change from the earliest to the latest sample present among the first
\* upto samples, the missing-sentinel when fewer than two are present
WindowChange(samples, upto) ==
    LET present == {i \in 1..upto : samples[i] # NaN}
        first == CHOOSE i \in present : \A j \in present : i <= j
        latest == CHOOSE i \in present : \A j \in present : j <= i
    IN  IF present = {} \/ first = latest THEN NaN
        ELSE F(samples[latest].v - samples[first].v)

\* the text of a delta cell
DeltaText(x) ==
    IF x = NaN \/ x.v = 0 THEN <<".">>
    ELSE IF x.v > 0 THEN <<"+">> \o formatFloat(x) ELSE formatFloat(x)

\* C31: in mode view the last cell of every row shows the total change over
\* the samples of the value columns on display (counted up to the current
\* sample, or up to the latest historical one), at every terminal width.
C31_ViewSpansVisibleWindow ==
    (Rendered /\ cfg.DeltaMode = DeltaModeView) =>
        \A r \in DOMAIN content.rows :
            LET visible == KeepLast(SortedSeries[r].Values, Shown(content))
                cell == content.rows[r][Len(content.rows[r])]
            IN  cell \in {DeltaText(WindowChange(visible, Len(visible))),
                          DeltaText(WindowChange(visible, Len(visible) - 1))}

-----------------------------------------------------------------------------
(* Properties of the merge *)

\* the observations of a snapshot that carry a value have pairwise distinct signatures
DistinctSignatures(families) ==
    \A i, j \in DOMAIN families :
        (i # j /\ HasValue(families[i]) /\ HasValue(families[j])) =>
            SigOf[families[i]] # SigOf[families[j]]

\* every order in which the metrics of a snapshot can be iterated
Orders(families) ==
    LET n == Len(families)
        bijections == {p \in [1..n -> 1..n] : \A i, j \in 1..n : p[i] = p[j] => i = j}
    IN  {[i \in 1..n |-> families[p[i]]] : p \in bijections}

\* C32: for a snapshot whose observations have pairwise distinct signatures,
\* the store after UpdateFromFamilies is the same for every order in which
\* the snapshot is iterated.
C32_MergeOrderIndependent ==
    [][(msg'.type = "families" /\ DistinctSignatures(msg'.families)) =>
        \A families \in Orders(msg'.families) :
            UpdateFromFamilies(store, families) = store']_vars

\* two series with history, both observed by the latest snapshot
C32_Witness ==
    /\ msg.type = "families"
    /\ Len(msg.families) >= 2
    /\ DistinctSignatures(msg.families)
    /\ \A i \in DOMAIN msg.families : HasValue(msg.families[i])
    /\ Cardinality(DOMAIN store.Metrics) >= 2
    /\ \A sig \in DOMAIN store.Metrics : Len(store.Metrics[sig].Values) >= 2

-----------------------------------------------------------------------------
(* Properties of the column widths *)

\* the candidate column behind column col of the table on display
CandidateColumn(col) ==
    IF col = 1 THEN 1 ELSE Len(CandidateWidths) - Len(content.headers) + col

\* C33: the width of every candidate column is the greatest of the width of
\* its header and the widths of its cells over all rows: no column is
\* narrower than its header, and no cell, on display or not, is wider than
\* its column.
C33_WidthIsMaximum ==
    Rendered =>
        /\ DOMAIN CandidateWidths = DOMAIN Headers(cfg)
        /\ \A col \in DOMAIN CandidateWidths :
               LET lengths == {Len(Headers(cfg)[col])}
                                  \cup {Len(CandidateRows[r][col]) : r \in DOMAIN CandidateRows}
               IN  /\ CandidateWidths[col] \in lengths
                   /\ \A n \in lengths : n <= CandidateWidths[col]
        /\ \A col \in DOMAIN content.headers :
               /\ Len(content.headers[col]) <= CandidateWidths[CandidateColumn(col)]
               /\ \A r \in DOMAIN content.rows :
                      Len(content.rows[r][col]) <= CandidateWidths[CandidateColumn(col)]

\* a table on display with a column as wide as its header and a column
\* widened by a cell
C33_Witness ==
    /\ Rendered
    /\ Shown(content) >= 2
    /\ \E col \in 2..Len(content.headers) :
           \A r \in DOMAIN content.rows : Len(content.rows[r][col]) < Len(content.headers[col])
    /\ \E col \in 2..Len(content.headers) :
           \E r \in DOMAIN content.rows : Len(content.rows[r][col]) > Len(content.headers[col])

-----------------------------------------------------------------------------
(* Properties of the delivery order *)

\* the newest sample of every series of store s
Newest(s) ==
    [sig \in DOMAIN s.Metrics |->
        IF s.Metrics[sig].Values = <<>> THEN NaN
        ELSE s.Metrics[sig].Values[Len(s.Metrics[sig].Values)]]

\* the newest samples a successful fetch with the snapshot families produces
Produced(s, families) ==
    [sig \in DOMAIN s.Metrics |->
        LET seen == ObservedValues(families, sig)
        IN  IF seen = <<>> THEN NaN ELSE seen[Len(seen)]]

\* C34: the newest sample of every series and the connection state are those
\* of the fetch completion handled most recently while not paused, whatever
\* the order of issue: such a success sets the newest samples to those of its
\* snapshot and the state to Connected, such a failure sets the state to
\* ErrorRetrying with its error and leaves the samples, and no other event
\* changes either.
C34_LatestCompletionWins ==
    [][/\ (msg'.type = "families" /\ ~isPaused) =>
              /\ cfg.History >= 1 => Newest(store') = Produced(store', msg'.families)
              /\ isConnected' /\ connectionError' = "nil"
       /\ (msg'.type = "error" /\ ~isPaused) =>
              /\ Newest(store') = Newest(store)
              /\ ~isConnected' /\ connectionError' = msg'.err
       /\ ~(msg'.type \in {"families", "error"} /\ ~isPaused) =>
              /\ Newest(store') = Newest(store)
              /\ isConnected' = isConnected
              /\ connectionError' = connectionError]_vars

-----------------------------------------------------------------------------
(* Properties of the tick chain *)

\* C35: one timer is pending, or its tick awaits handling, before and after
\* every event: a handled tick schedules one successor, paused or not, and
\* no other event schedules or removes a timer.
C35_OneTimer ==
    [][/\ timers = 1
       /\ timers' = 1
       /\ msg'.type = "tick" => Count(cmd', "tick") = 1
       /\ msg'.type # "tick" => Count(cmd', "tick") = 0]_vars

\* a tick handled while paused, with its successor scheduled
C35_Witness ==
    /\ msg.type = "tick"
    /\ isPaused
    /\ cmd = <<"tick">>
    /\ timers = 1

-----------------------------------------------------------------------------
(* Properties of the connection state *)

Connecting == ~isConnected /\ connectionError = "nil"

Connected == isConnected /\ connectionError = "nil"

ErrorRetrying == ~isConnected /\ connectionError # "nil"

\* C36: the program starts in Connecting; in every state it is in exactly
\* one of Connecting, Connected and ErrorRetrying, so isConnected implies
\* that no error is set; and no event leads back to Connecting from another
\* state.
C36_ConnectionStates ==
    /\ Connecting
    /\ [][/\ Connecting' \/ Connected' \/ ErrorRetrying'
          /\ isConnected' => connectionError' = "nil"
          /\ Connecting' => Connecting]_vars

\* a failure after a success: ErrorRetrying with samples in the store
C36_Witness ==
    /\ ErrorRetrying
    /\ msg.type = "error"
    /\ DOMAIN store.Metrics # {}

-----------------------------------------------------------------------------
(* Properties of the table on display *)

\* the width of column col of the table on display
DisplayedWidth(col) ==
    SetMax({Len(content.headers[col])}
               \cup {Len(content.rows[r][col]) : r \in DOMAIN content.rows})

RECURSIVE SumWidths(_)
SumWidths(col) == IF col = 0 THEN 0 ELSE DisplayedWidth(col) + SumWidths(col - 1)

\* the width of a table of the first and the last n columns on display:
\* the column widths and one border more than there are columns
TableWidth(n) ==
    LET cols == Len(content.headers)
    IN  DisplayedWidth(1) + (SumWidths(cols) - SumWidths(cols - n)) + (n + 2)

\* C37: the header row and every data row have one cell more than there are
\* value columns on display, and when the current column alone fits the
\* terminal (the forced minimum of one column is not needed) the table on
\* display fits it: name column width + widths of the value columns on
\* display + (their number + 2) border units <= terminal width.
C37_TableFits ==
    Rendered =>
        /\ Len(content.headers) = 1 + Shown(content)
        /\ \A r \in DOMAIN content.rows : Len(content.rows[r]) = 1 + Shown(content)
        /\ TableWidth(1) <= width => TableWidth(Shown(content)) <= width

\* a table of two value columns that fills the terminal exactly, a third
\* column left out
C37_Witness ==
    /\ Rendered
    /\ cfg.History = 3
    /\ Shown(content) = 2
    /\ TableWidth(2) = width

-----------------------------------------------------------------------------
(* Properties of the value cells, in the modes off and next *)

\* the cell of row r that is k columns left of the current column
CellAt(r, k) == content.rows[r][Len(content.rows[r]) - k]

\* the projected value k cycles before the newest sample: the sample in mode
\* off and in the current column, the delta to the next sample otherwise
ProjectedAt(vals, k) ==
    IF cfg.DeltaMode = DeltaModeOff \/ k = 0
    THEN vals[Len(vals) - k]
    ELSE DeltaToNext(vals, Len(vals) - k)

\* the text of the projected value k cycles before the newest sample
TextAt(vals, k) ==
    IF cfg.DeltaMode = DeltaModeOff \/ k = 0
    THEN (IF vals[Len(vals) - k] = NaN THEN <<".">> ELSE formatFloat(vals[Len(vals) - k]))
    ELSE DeltaText(DeltaToNext(vals, Len(vals) - k))

OffOrNext == Rendered /\ cfg.DeltaMode \in {DeltaModeOff, DeltaModeNext}

\* C38: in every row the newest sample of the series is in the current
\* column and the sample k cycles older is k columns to its left; a column
\* older than the first sample of the series holds an empty cell, neither
\* the missing placeholder nor a value.
C38_TailAligned ==
    OffOrNext =>
        \A r \in DOMAIN content.rows :
            \A k \in 0..(Shown(content) - 1) :
                LET vals == SortedSeries[r].Values
                IN  IF k < Len(vals)
                    THEN CellAt(r, k) = TextAt(vals, k) /\ CellAt(r, k) # <<>>
                    ELSE CellAt(r, k) = <<>>

\* a younger series with an empty cell under a column where an older series has a value
C38_Witness ==
    /\ OffOrNext
    /\ Len(content.rows) = 2
    /\ Shown(content) >= 2
    /\ \E r, q \in DOMAIN content.rows :
           /\ CellAt(r, 1) = <<>>
           /\ CellAt(q, 1) \notin {<<>>, <<".">>}
           /\ CellAt(r, 0) # <<>>

\* C39: a value cell shows the missing placeholder "." exactly when the
\* projected value at its time index is the missing-sentinel; a delta of
\* zero is shown differently.
C39_PlaceholderIffMissing ==
    OffOrNext =>
        \A r \in DOMAIN content.rows :
            \A k \in 0..(Shown(content) - 1) :
                LET vals == SortedSeries[r].Values
                IN  k < Len(vals) => (CellAt(r, k) = <<".">> <=> ProjectedAt(vals, k) = NaN)

-----------------------------------------------------------------------------
(* Properties of the series without labels *)

Unlabelled == {sig \in DOMAIN store.Metrics : DOMAIN store.Metrics[sig].Labels = {}}

\* C40: a series without labels has no row under a non-empty label
\* pattern, whatever its form, a pattern that matches the empty string
\* included; under the empty label pattern it has a row whenever its name
\* passes the name check.
C40_UnlabelledExcluded ==
    viewportReady =>
        \A sig \in Unlabelled :
            LET shown == NameCell(cfg, store.Metrics[sig]) \in Displayed
            IN  /\ cfg.FilterLabel # <<>> => ~shown
                /\ cfg.FilterLabel = <<>> =>
                       (shown <=> NameCheck(cfg.FilterMetric, store.Metrics[sig]))

\* the pattern .* with a labelled series on display and an unlabelled one in the store
C40_Witness ==
    /\ viewportReady
    /\ cfg.FilterLabel = <<".", "*">>
    /\ Unlabelled # {}
    /\ \A sig \in DOMAIN store.Metrics : NameCheck(cfg.FilterMetric, store.Metrics[sig])
    /\ content.kind = "table"
    /\ Len(content.rows) = 1

=============================================================================
